---------------------------- MODULE Spec2Model ----------------------------
(***************************************************************************)
(* The ReactOS view cache (ntoskrnl/cc/view.c) and, in the second part,   *)
(* the GDI handle table (win32k/gre/gdiobj.c), as state machines.  The    *)
(* third part follows the lock calls of view.c one by one.                *)
(*                                                                         *)
(* Threads run the cache operations concurrently.  One step of a thread is *)
(* one critical section of ViewLock (the lock is taken and released inside *)
(* the step), or one atomic access made outside it.  A thread is between   *)
(* steps exactly where the code holds no ViewLock.                         *)
(*                                                                         *)
(* An ASSERT that does not hold ends the run: the checked build stops at   *)
(* it (halt = "bugcheck", nothing written), the free build compiles it out *)
(* and goes on (halt = "corrupt", the step's writes made).  Both outcomes  *)
(* are successors; the model follows the program up to and including the   *)
(* first such step.  A use of a body that was freed ends the run likewise. *)
(*                                                                         *)
(* Addresses are abstract: a body is a slot of its lookaside list, and a    *)
(* pointer to a body that has been freed is DANGLING from then on, so that *)
(* its use is seen whether or not the allocator hands the slot out again.  *)
(***************************************************************************)
EXTENDS Integers, Sequences, FiniteSets, TLC

\* ------------------------------------------------------------ constants
VACB_MAPPING_GRANULARITY == 262144
PAGE_SIZE == 4096

\* A ULONG is kept as the LONG with the same 32 bits (-1 is 0xFFFFFFFF), and is
\* compared as unsigned; the counters of the model stay far from 2^31
ULONG_LT(a, b) == IF (a < 0) = (b < 0) THEN a < b ELSE b < 0
ULONG_GT(a, b) == ULONG_LT(b, a)

\* ------------------------------------------------------------ bounds
NumThreads == 2
NumFiles == 2
MaxWindows == 2
MaxMaps == 2
\* bodies of VacbLookasideList beyond one per window of every map
SpareVacbs == 2
MaxVacbs == MaxMaps * MaxWindows + SpareVacbs
MaxMapped == 1

Threads == 1..NumThreads
Files == 1..NumFiles
VacbIds == 1..MaxVacbs
MapIds == 1..MaxMaps
NULL == 0
DANGLING == -1

PagesPerVacb == VACB_MAPPING_GRANULARITY \div PAGE_SIZE
\* AllocationSize and FileSize handed to CcRosInitializeFileCache
SectionSize == MaxWindows * VACB_MAPPING_GRANULARITY
AlignedOffsets == {w * VACB_MAPPING_GRANULARITY : w \in 0..(MaxWindows - 1)}
\* files opened with FO_TEMPORARY_FILE
TemporaryFiles == {f \in Files : f > 1}

Statuses == {"STATUS_SUCCESS", "STATUS_END_OF_FILE",
             "STATUS_MEDIA_WRITE_PROTECTED", "STATUS_UNSUCCESSFUL"}
NT_SUCCESS(s) == s = "STATUS_SUCCESS"

VARIABLES
    vacb,                      \* the ROS_VACB bodies of VacbLookasideList
    maps,                      \* the ROS_SHARED_CACHE_MAP bodies
    DirtyVacbListHead,         \* global dirty list, head first
    VacbLruListHead,           \* global LRU list, head first
    CcTotalDirtyPages,
    CcCleanSharedCacheMapList,
    SectionPtr,                \* SectionObjectPointer->SharedCacheMap, per file
    PrivateCacheMap,           \* FileObject->PrivateCacheMap, per thread's handle
    mmRefs,                    \* CcRosReferenceCache calls not yet matched, per file
    pc, loc,                   \* each thread's position and locals
    held,                      \* the VACB a caller got from request_region
    halt                       \* "run", or how the run ended, and why

\* The GDI handle table of gdiobj.c
VARIABLES
    Entries,                   \* GdiHandleTable->Entries, past the reserved ones
    FirstFree,                 \* GdiHandleTable->FirstFree
    FirstUnused,               \* GdiHandleTable->FirstUnused
    Objects,                   \* the bodies (BASEOBJECT headers) of the pool
    GDIHandleCount,            \* W32Process->GDIHandleCount, per process
    gpc, gloc,                 \* each thread's position and locals in gdiobj.c
    locked,                    \* how often a thread holds a body from alloc and lock_object
    shared,                    \* how often a thread holds a body from share_lock_object
    minted,                    \* the handles the callers have been given
    destroyed                  \* the objects free_by_handle has destroyed, in order

\* The locks of view.c, and where each thread is between two lock calls
VARIABLES
    ViewLock,                  \* the thread that owns the guarded mutex, or NULL
    CacheMapLock,              \* the thread that owns SharedCacheMap->CacheMapLock, per map
    frames                     \* each thread's calls, innermost last: function and line

viewVars == <<vacb, maps, DirtyVacbListHead, VacbLruListHead, CcTotalDirtyPages,
              CcCleanSharedCacheMapList, SectionPtr, PrivateCacheMap, mmRefs, pc, loc,
              held>>
gdiVars == <<Entries, FirstFree, FirstUnused, Objects, GDIHandleCount, gpc, gloc,
             locked, shared, minted, destroyed>>
lockVars == <<ViewLock, CacheMapLock, frames>>
vars == <<viewVars, gdiVars, halt, lockVars>>

\* ------------------------------------------------------------ sequences
InSeq(x, s) == \E i \in 1..Len(s) : s[i] = x
Count(x, s) == Cardinality({i \in 1..Len(s) : s[i] = x})
IndexOf(x, s) == CHOOSE i \in 1..Len(s) : s[i] = x /\ \A j \in 1..(i - 1) : s[j] # x
\* RemoveEntryList: an entry that is on no list links to itself, and is left so
RemoveEntryList(x, s) ==
    IF InSeq(x, s)
    THEN LET i == IndexOf(x, s) IN SubSeq(s, 1, i - 1) \o SubSeq(s, i + 1, Len(s))
    ELSE s
InsertTailList(s, x) == Append(s, x)
InsertHeadList(s, x) == <<x>> \o s
InsertAfter(s, i, x) == SubSeq(s, 1, i) \o <<x>> \o SubSeq(s, i + 1, Len(s))
\* Flink of entry x of list s (NULL: the list head)
Flink(x, s) ==
    IF InSeq(x, s) /\ IndexOf(x, s) < Len(s) THEN s[IndexOf(x, s) + 1] ELSE NULL
First(s) == IF s = <<>> THEN NULL ELSE s[1]
Min(a, b) == IF a < b THEN a ELSE b

\* ------------------------------------------------------------ bodies
FreedVacb ==
    [state |-> "free", FileOffset |-> 0, BaseAddress |-> NULL, Valid |-> FALSE,
     Dirty |-> FALSE, PageOut |-> FALSE, MappedCount |-> 0, ReferenceCount |-> 0,
     PinCount |-> 0, SharedCacheMap |-> NULL, CacheMapVacbListEntry |-> "empty"]

FreedMap ==
    [state |-> "free", FileObject |-> NULL, OpenCount |-> 0, DirtyPages |-> 0,
     CacheMapVacbListHead |-> <<>>, PrivateInline |-> FALSE]

\* The shared state as one value, so that the code's functions are operators on it
Now ==
    [vacb |-> vacb, maps |-> maps, dirty |-> DirtyVacbListHead,
     lru |-> VacbLruListHead, total |-> CcTotalDirtyPages,
     clean |-> CcCleanSharedCacheMapList, sect |-> SectionPtr,
     priv |-> PrivateCacheMap, mm |-> mmRefs, fault |-> "", bugcheck |-> ""]

\* The first assertion (or wild access) that failed is kept
Fail(g, what) == IF g.fault = "" THEN [g EXCEPT !.fault = what] ELSE g
ASSERT_(g, cond, what) == IF cond THEN g ELSE Fail(g, what)
KeBugCheck(g, what) == IF g.bugcheck = "" THEN [g EXCEPT !.bugcheck = what] ELSE g

Live(g, v) == v \in VacbIds /\ g.vacb[v].state = "live"
LiveMap(g, m) == m \in MapIds /\ g.maps[m].state = "live"
UseAfterFree(g) == Fail(g, "use of a freed VACB")
TouchMap(g, m) == ASSERT_(g, LiveMap(g, m), "use of a freed SharedCacheMap")
\* The body behind a pointer (what a freed body holds is never relied on)
Body(g, v) == IF v \in VacbIds THEN g.vacb[v] ELSE FreedVacb
MapBody(g, m) == IF m \in MapIds THEN g.maps[m] ELSE FreedMap

\* ------------------------------------------------------------ references
CcRosInternalFreeVacb(g, v) ==
    LET b == g.vacb[v]
        g2 == ASSERT_(g, b.PinCount = 0, "ASSERT(Vacb->PinCount == 0)")
        g3 == ASSERT_(g2, b.ReferenceCount = 0, "ASSERT(Vacb->ReferenceCount == 0)")
        g4 == ASSERT_(g3, b.CacheMapVacbListEntry = "empty",
                      "ASSERT(IsListEmpty(&Vacb->CacheMapVacbListEntry))")
        g5 == ASSERT_(g4, ~InSeq(v, g.dirty),
                      "ASSERT(IsListEmpty(&Vacb->DirtyVacbListEntry))")
        g6 == ASSERT_(g5, ~InSeq(v, g.lru),
                      "ASSERT(IsListEmpty(&Vacb->VacbLruListEntry))")
    IN  [g6 EXCEPT !.vacb[v] = FreedVacb]

CcRosVacbIncRefCount(g, v) ==
    IF ~Live(g, v) THEN UseAfterFree(g)
    ELSE [g EXCEPT !.vacb[v].ReferenceCount = @ + 1]

CcRosVacbDecRefCount(g, v) ==
    IF ~Live(g, v) THEN UseAfterFree(g)
    ELSE LET Refs == g.vacb[v].ReferenceCount - 1
             g2 == [g EXCEPT !.vacb[v].ReferenceCount = Refs]
             g3 == ASSERT_(g2, ~(Refs = 0 /\ g.vacb[v].Dirty),
                           "ASSERT(!(Refs == 0 && vacb->Dirty))")
         IN  IF Refs = 0 THEN CcRosInternalFreeVacb(g3, v) ELSE g3

\* The value CcRosVacbDecRefCount returns
RefsAfterDec(g, v) == Body(g, v).ReferenceCount - 1

\* ------------------------------------------------------------ lookup
RECURSIVE LookupWalk(_, _, _, _)
LookupWalk(g, L, i, FileOffset) ==
    IF i > Len(L) THEN NULL
    ELSE LET current == Body(g, L[i])
         IN  IF /\ FileOffset >= current.FileOffset
                /\ FileOffset < current.FileOffset + VACB_MAPPING_GRANULARITY
             THEN L[i]
             ELSE IF current.FileOffset > FileOffset THEN NULL
             ELSE LookupWalk(g, L, i + 1, FileOffset)

VacbListOf(g, m) == MapBody(g, m).CacheMapVacbListHead

\* The VACB CcRosLookupVacb returns (NULL: none covers FileOffset)
FoundVacb(g, m, FileOffset) == LookupWalk(g, VacbListOf(g, m), 1, FileOffset)

CcRosLookupVacb(g, m, FileOffset) ==
    LET g1 == TouchMap(g, m)
        current == FoundVacb(g, m, FileOffset)
    IN  IF current = NULL THEN g1 ELSE CcRosVacbIncRefCount(g1, current)

\* ------------------------------------------------------------ dirty marks
AddPages(n) == n + PagesPerVacb
SubPages(n) == n - PagesPerVacb

MoveToLruTail(g, v) ==
    [g EXCEPT !.lru = InsertTailList(RemoveEntryList(v, @), v)]

CcRosMarkDirtyVacb(g, v) ==
    IF ~Live(g, v) THEN UseAfterFree(g)
    ELSE LET m == g.vacb[v].SharedCacheMap
             g1 == ASSERT_(TouchMap(g, m), ~g.vacb[v].Dirty, "ASSERT(!Vacb->Dirty)")
             g2 == [g1 EXCEPT !.dirty = InsertTailList(@, v), !.total = AddPages(@)]
             g3 == IF m \in MapIds THEN [g2 EXCEPT !.maps[m].DirtyPages = AddPages(@)]
                   ELSE g2
             g4 == CcRosVacbIncRefCount(g3, v)
             g5 == MoveToLruTail(g4, v)
         IN  [g5 EXCEPT !.vacb[v].Dirty = TRUE]

CcRosUnmarkDirtyVacb(g, v) ==
    IF ~Live(g, v) THEN UseAfterFree(g)
    ELSE LET m == g.vacb[v].SharedCacheMap
             g1 == ASSERT_(TouchMap(g, m), g.vacb[v].Dirty, "ASSERT(Vacb->Dirty)")
             g2 == [g1 EXCEPT !.vacb[v].Dirty = FALSE, !.dirty = RemoveEntryList(v, @),
                              !.total = SubPages(@)]
             g3 == IF m \in MapIds THEN [g2 EXCEPT !.maps[m].DirtyPages = SubPages(@)]
                   ELSE g2
         IN  CcRosVacbDecRefCount(g3, v)

\* CcRosFlushVacb once CcWriteVirtualAddress has returned Status
CcRosFlushVacb(g, v, Status) ==
    IF NT_SUCCESS(Status) THEN CcRosUnmarkDirtyVacb(g, v) ELSE g

\* ------------------------------------------------------------ threads
\* A thread's locals, under the names the code gives them where it has names
NoLoc ==
    [op |-> "", f |-> NULL, map |-> NULL, SharedCacheMap |-> NULL, Offset |-> 0, RemainingLength |-> 0,
     current |-> NULL, current_entry |-> NULL, Status |-> "",
     IoStatus |-> "", range |-> <<>>, Mapped |-> FALSE, cont |-> "", Target |-> 0, Count |-> 0,
     CalledFromLazy |-> FALSE, refused |-> FALSE, TrimTarget |-> 0, NrFreed |-> 0,
     FlushedPages |-> FALSE, FreeList |-> <<>>, written |-> <<>>,
     Dirty |-> FALSE, marked |-> FALSE, staged |-> <<>>]

Running == halt[1] = "run"
Idle(t) == Running /\ pc[t] = "idle"
\* The thread's handle to file f is open for caching
Opened(t, f) == PrivateCacheMap[t][f].kind # "none" /\ SectionPtr[f] # NULL

Lowest(S) == CHOOSE x \in S : \A y \in S : x <= y

\* The pointers threads keep, once the bodies in freed are gone
Stale(L, H, freed) ==
    LET P(x) == IF x \in freed THEN DANGLING ELSE x
        PS(q) == [i \in 1..Len(q) |-> P(q[i])]
    IN  [loc |-> [t \in Threads |->
                    [L[t] EXCEPT !.current = P(@), !.current_entry = P(@),
                                 !.FreeList = PS(@)]],
         held |-> [t \in Threads |-> P(H[t])]]

\* The end of a step of thread t: the shared state becomes g, the thread goes to
\* position p with locals l, holding h
Commit(g, t, p, l, h) ==
  /\ UNCHANGED <<gdiVars, lockVars>>
  /\
    IF g.bugcheck # ""
    THEN /\ halt' = <<"bugcheck", g.bugcheck>>
         /\ UNCHANGED <<vacb, maps, DirtyVacbListHead, VacbLruListHead,
                        CcTotalDirtyPages, CcCleanSharedCacheMapList, SectionPtr,
                        PrivateCacheMap, mmRefs, pc, loc, held>>
    ELSE \E build \in IF g.fault = "" THEN {"run"} ELSE {"bugcheck", "corrupt"} :
           /\ halt' = <<build, g.fault>>
           /\ IF build = "bugcheck"
              THEN UNCHANGED <<vacb, maps, DirtyVacbListHead, VacbLruListHead,
                               CcTotalDirtyPages, CcCleanSharedCacheMapList, SectionPtr,
                               PrivateCacheMap, mmRefs, pc, loc, held>>
              ELSE LET freed == {v \in VacbIds : /\ vacb[v].state = "live"
                                                   /\ g.vacb[v].state = "free"}
                       n == IF freed = {}
                            THEN [loc |-> [loc EXCEPT ![t] = l],
                                  held |-> [held EXCEPT ![t] = h]]
                            ELSE Stale([loc EXCEPT ![t] = l], [held EXCEPT ![t] = h],
                                       freed)
                   IN  /\ vacb' = g.vacb
                       /\ maps' = g.maps
                       /\ DirtyVacbListHead' = g.dirty
                       /\ VacbLruListHead' = g.lru
                       /\ CcTotalDirtyPages' = g.total
                       /\ CcCleanSharedCacheMapList' = g.clean
                       /\ SectionPtr' = g.sect
                       /\ PrivateCacheMap' = g.priv
                       /\ mmRefs' = g.mm
                       /\ pc' = [pc EXCEPT ![t] = p]
                       /\ loc' = n.loc
                       /\ held' = n.held

\* ============================================================ gdiobj.c
\* The GDI handle table (win32k/gre/gdiobj.c).  One step of a thread is one
\* interlocked access to the table, together with the plain accesses the code
\* makes next, up to the store that gives the entry back.
\*
\* A handle is kept as its two halves: index (the low 16 bits) and upper (the
\* high 16 bits, as a number below 2^16).  An entry's Type is kept whole: bits
\* 0-6 the type, bit 7 the stock flag, bits 8-15 the reuse counter, bits 16-20
\* the base type.  Entry->Type << GDI_ENTRY_UPPER_SHIFT, a 32 bit value whose
\* low half is zero, is kept as its high half, Type % 2^16.  Object types are
\* kept the same way (GDI_OBJECT_TYPE_BRUSH, 0x00100000, is 16).
RESERVE_ENTRIES_COUNT == 10
\* entries of the table beyond the reserved ones
NumSlots == 2
GDI_HANDLE_COUNT == RESERVE_ENTRIES_COUNT + NumSlots
Slots == RESERVE_ENTRIES_COUNT..(GDI_HANDLE_COUNT - 1)
\* bodies the pool can hold at a time
MaxBodies == 3
BodyIds == 1..MaxBodies
NumGdiThreads == 3
GdiThreads == 1..NumGdiThreads
\* Process ids are multiples of four; threads 1 and 2 belong to one process
Pids == {4, 8}
GDI_GLOBAL_PROCESS == 0
ProcessOf(t) == IF t <= 2 THEN 4 ELSE 8

GDI_OBJECT_TYPE_DONTCARE == 0
GDI_OBJECT_TYPE_DC == 1
GDI_OBJECT_TYPE_BITMAP == 5
GDI_OBJECT_TYPE_PALETTE == 8
GDI_OBJECT_TYPE_BRUSH == 16
\* a pen is a brush by its base type
GDI_OBJECT_TYPE_PEN == 48
ObjectTypes == {GDI_OBJECT_TYPE_DC, GDI_OBJECT_TYPE_BITMAP, GDI_OBJECT_TYPE_PALETTE,
                GDI_OBJECT_TYPE_BRUSH, GDI_OBJECT_TYPE_PEN}

GDI_ENTRY_STOCK_MASK == 128
GDI_ENTRY_REUSE_INC == 256
TwoTo16 == 65536

\* the lock bit of an entry's ProcessId
IsLocked(p) == p % 2 = 1
WithLock(p) == p - (p % 2) + 1
WithoutLock(p) == p - (p % 2)

\* the fields of an entry's Type
EntryUpper(Type) == Type % TwoTo16
EntryBaseType(Type) == (Type \div TwoTo16) % 32
EntryReuseBits(Type) == ((Type \div GDI_ENTRY_REUSE_INC) % 256) * GDI_ENTRY_REUSE_INC
GDI_ENTRY_GET_REUSECNT(Type) == (Type \div GDI_ENTRY_REUSE_INC) % 256
ClearBaseType(Type) == Type - EntryBaseType(Type) * TwoTo16

\* the fields of a handle
NoHandle == [upper |-> 0, index |-> 0]
MakeHandle(Index, TypeInfo) == [upper |-> EntryUpper(TypeInfo), index |-> Index]
GDI_HANDLE_GET_INDEX(h) == h.index
GDI_HANDLE_GET_UPPER(h) == h.upper
GDI_HANDLE_GET_TYPE(h) == h.upper % 128
GDI_HANDLE_IS_STOCKOBJ(h) == (h.upper \div GDI_ENTRY_STOCK_MASK) % 2 = 1
GDI_OBJECT_GET_TYPE_INDEX(ObjectType) == ObjectType % 32

\* KernelData: a pointer to a body, or the index of the next free entry
PointerTo(b) == <<"body", b>>
IndexOfNext(i) == <<"index", i>>
NullData == IndexOfNext(0)
IsBody(k) == k[1] = "body"

FreeEntry == [ProcessId |-> 0, Type |-> 0, KernelData |-> NullData]
FreeBody ==
    [state |-> "free", hHmgr |-> NoHandle, ulShareCount |-> 0, cExclusiveLock |-> 0,
     Tid |-> 0, ReadyToDie |-> FALSE, BaseType |-> 0]

\* A thread's locals in the table's functions
NoGLoc ==
    [op |-> "", hObj |-> NoHandle, ExpectedType |-> 0, ObjectType |-> 0, Index |-> 0,
     idxFirst |-> 0, Object |-> 0, newObject |-> 0, ProcessId |-> 0,
     HandleProcessId |-> 0, PrevProcId |-> 0, NewOwner |-> 0,
     ObjectHandle |-> NoHandle,
     Ret |-> FALSE, result |-> 0, cont |-> "", pass |-> 0, idxNext |-> 0,
     idxFirstFree |-> 0]

\* GDIOBJ_iAllocHandleTable: the table is zeroed, no entry was ever used
GdiInit ==
    /\ Entries = [i \in Slots |-> FreeEntry]
    /\ FirstFree = 0
    /\ FirstUnused = RESERVE_ENTRIES_COUNT
    /\ Objects = [b \in BodyIds |-> FreeBody]
    /\ GDIHandleCount = [p \in Pids |-> 0]
    /\ gpc = [t \in GdiThreads |-> "idle"]
    /\ gloc = [t \in GdiThreads |-> NoGLoc]
    /\ locked = [t \in GdiThreads |-> [b \in BodyIds |-> 0]]
    /\ shared = [t \in GdiThreads |-> [b \in BodyIds |-> 0]]
    /\ minted = {}
    /\ destroyed = <<>>

\* FileObject->PrivateCacheMap: NULL, from the pool, or the one inside map m
NoPrivateMap == [kind |-> "none", map |-> NULL]
PoolPrivateMap == [kind |-> "pool", map |-> NULL]
InlinePrivateMap(m) == [kind |-> "inline", map |-> m]

\* KeInitializeGuardedMutex, KeInitializeSpinLock: nobody owns a lock, no
\* thread is inside view.c
LockInit ==
    /\ ViewLock = NULL
    /\ CacheMapLock = [m \in MapIds |-> NULL]
    /\ frames = [t \in Threads |-> <<>>]

\* CcInitView: the lists are empty, nothing is cached
Init ==
    /\ vacb = [v \in VacbIds |-> FreedVacb]
    /\ maps = [m \in MapIds |-> FreedMap]
    /\ DirtyVacbListHead = <<>>
    /\ VacbLruListHead = <<>>
    /\ CcTotalDirtyPages = 0
    /\ CcCleanSharedCacheMapList = <<>>
    /\ SectionPtr = [f \in Files |-> NULL]
    /\ PrivateCacheMap = [t \in Threads |-> [f \in Files |-> NoPrivateMap]]
    /\ mmRefs = [f \in Files |-> 0]
    /\ pc = [t \in Threads |-> "idle"]
    /\ loc = [t \in Threads |-> NoLoc]
    /\ held = [t \in Threads |-> NULL]
    /\ halt = <<"run", "">>
    /\ GdiInit
    /\ LockInit

\* The caller has read its results and goes on
Return(t) ==
    /\ Running /\ pc[t] = "done"
    /\ pc' = [pc EXCEPT ![t] = "idle"]
    /\ loc' = [loc EXCEPT ![t] = NoLoc]
    /\ UNCHANGED <<vacb, maps, DirtyVacbListHead, VacbLruListHead, CcTotalDirtyPages,
                   CcCleanSharedCacheMapList, SectionPtr, PrivateCacheMap, mmRefs,
                   held, halt>>
    /\ UNCHANGED <<gdiVars, lockVars>>

\* ------------------------------------------------------------ open
FreeMapIds(g) == {m \in MapIds : g.maps[m].state = "free"}
FreeVacbIds(g) == {v \in VacbIds : g.vacb[v].state = "free"}
\* What the lookaside lists hand out: which free body it is, is the allocator's
\* business; the model's takes the one kept for the file, or for the window
AllocateMap(g, f) ==
    IF f \in FreeMapIds(g) THEN f ELSE Lowest(FreeMapIds(g))
AllocateVacb(g, m, FileOffset) ==
    LET own == (m - 1) * MaxWindows + (FileOffset \div VACB_MAPPING_GRANULARITY) + 1
        spare == {v \in FreeVacbIds(g) : v > MaxMaps * MaxWindows}
    IN  IF own \in FreeVacbIds(g) THEN own
        ELSE IF spare # {} THEN Lowest(spare)
        ELSE Lowest(FreeVacbIds(g))

\* CcRosInitializeFileCache reads the section's map pointer before it takes ViewLock
InitializeFileCache_Read(t, f) ==
    /\ Idle(t) /\ held[t] = NULL
    /\ pc' = [pc EXCEPT ![t] = "ifc_locked"]
    /\ loc' = [loc EXCEPT ![t] = [NoLoc EXCEPT !.op = "initialize_file_cache",
                                               !.f = f, !.map = SectionPtr[f]]]
    /\ UNCHANGED <<vacb, maps, DirtyVacbListHead, VacbLruListHead, CcTotalDirtyPages,
                   CcCleanSharedCacheMapList, SectionPtr, PrivateCacheMap, mmRefs,
                   held, halt>>
    /\ UNCHANGED <<gdiVars, lockVars>>

NewSharedCacheMap(f) ==
    [state |-> "live", FileObject |-> f, OpenCount |-> 0, DirtyPages |-> 0,
     CacheMapVacbListHead |-> <<>>, PrivateInline |-> FALSE]

\* CcRosInitializeFileCache without the test of Allocated at line 1360: a
\* failed allocation of the private map kills the map it found installed too
InitializeFileCacheKillsAnyMap(g, t, f, SharedCacheMap, mapOk, privOk) ==
    LET Allocated == SharedCacheMap = NULL
        canAlloc == mapOk /\ FreeMapIds(g) # {}
        m == IF Allocated THEN (IF canAlloc THEN AllocateMap(g, f) ELSE NULL)
             ELSE SharedCacheMap
        g1 == IF Allocated /\ canAlloc
              THEN [g EXCEPT !.maps[m] = NewSharedCacheMap(f), !.sect[f] = m,
                             !.clean = InsertTailList(@, m)]
              ELSE g
        g2 == IF Allocated THEN g1 ELSE TouchMap(g1, m)
        inline == ~MapBody(g2, m).PrivateInline
        gotPriv == inline \/ privOk
    IN  IF m \notin MapIds THEN g
        ELSE IF g.priv[t][f].kind # "none" THEN g2
        ELSE IF ~gotPriv
        THEN [g2 EXCEPT !.clean = RemoveEntryList(m, @), !.sect[f] = NULL,
                        !.maps[m] = FreedMap]
        ELSE [g2 EXCEPT !.maps[m].PrivateInline = IF inline THEN TRUE ELSE @,
                        !.maps[m].OpenCount = @ + 1,
                        !.priv[t][f] = IF inline THEN InlinePrivateMap(m)
                                       ELSE PoolPrivateMap]

\* The body of CcRosInitializeFileCache under ViewLock.  mapOk, privOk: whether
\* the lookaside list and the pool have memory for a new map, a new private map.
CcRosInitializeFileCache(g, t, f, SharedCacheMap, mapOk, privOk) ==
    LET Allocated == SharedCacheMap = NULL
        canAlloc == mapOk /\ FreeMapIds(g) # {}
        m == IF Allocated THEN (IF canAlloc THEN AllocateMap(g, f) ELSE NULL)
             ELSE SharedCacheMap
        g1 == IF Allocated /\ canAlloc
              THEN [g EXCEPT !.maps[m] = NewSharedCacheMap(f), !.sect[f] = m,
                             !.clean = InsertTailList(@, m)]
              ELSE g
        g2 == IF Allocated THEN g1 ELSE TouchMap(g1, m)
        inline == ~MapBody(g2, m).PrivateInline
        gotPriv == inline \/ privOk
    IN  IF m \notin MapIds THEN g
        ELSE IF g.priv[t][f].kind # "none" THEN g2
        ELSE IF ~gotPriv
        THEN IF Allocated
             THEN [g2 EXCEPT !.clean = RemoveEntryList(m, @), !.sect[f] = NULL,
                             !.maps[m] = FreedMap]
             ELSE g2
        ELSE [g2 EXCEPT !.maps[m].PrivateInline = IF inline THEN TRUE ELSE @,
                        !.maps[m].OpenCount = @ + 1,
                        !.priv[t][f] = IF inline THEN InlinePrivateMap(m)
                                       ELSE PoolPrivateMap]

InitializeFileCache_Locked(t) ==
    /\ Running /\ pc[t] = "ifc_locked"
    /\ \E mapOk \in BOOLEAN, privOk \in BOOLEAN :
         Commit(CcRosInitializeFileCache(Now, t, loc[t].f, loc[t].map, mapOk, privOk),
                t, "idle", NoLoc, held[t])

\* ------------------------------------------------------------ request
ROUND_DOWN(n, align) == (n \div align) * align

NewVacb(m, FileOffset) ==
    [state |-> "live", FileOffset |-> ROUND_DOWN(FileOffset, VACB_MAPPING_GRANULARITY),
     BaseAddress |-> NULL, Valid |-> FALSE, Dirty |-> FALSE, PageOut |-> FALSE,
     MappedCount |-> 0, ReferenceCount |-> 0, PinCount |-> 0, SharedCacheMap |-> m,
     CacheMapVacbListEntry |-> "empty"]

\* The end of CcRosGetVacb: the VACB goes to the tail of the LRU list
GetVacbTail(g, current) ==
    IF ~Live(g, current) THEN UseAfterFree(g)
    ELSE ASSERT_(MoveToLruTail(g, current),
                 ULONG_GT(g.vacb[current].ReferenceCount, 1), "ASSERT(Refs > 1)")

\* CcRosRequestVacb, and CcRosGetVacb up to the lookup's result
CcRosRequestVacb(t, f, FileOffset) ==
    /\ Idle(t) /\ held[t] = NULL /\ Opened(t, f)
    /\ LET m == SectionPtr[f]
           l == [NoLoc EXCEPT !.op = "request_region", !.f = f, !.map = m,
                              !.Offset = FileOffset]
           current == FoundVacb(Now, m, FileOffset)
       IN  IF FileOffset % VACB_MAPPING_GRANULARITY # 0
           THEN Commit(KeBugCheck(Now, "CACHE_MANAGER: bad file offset"), t, "idle",
                       NoLoc, NULL)
           ELSE IF current = NULL
           THEN Commit(CcRosLookupVacb(Now, m, FileOffset), t, "create", l, NULL)
           ELSE Commit(GetVacbTail(CcRosLookupVacb(Now, m, FileOffset), current),
                       t, "idle", NoLoc, current)

\* What CcRosMapVacbInKernelSpace can come to
MapOutcomes == {"mapped", "no memory area", "no page"}

\* CcRosCreateVacb up to the mapping of the new VACB
CreateVacb_Alloc(t) ==
    /\ Running /\ pc[t] = "create"
    /\ loc[t].Offset < SectionSize => FreeVacbIds(Now) # {}
    /\ LET l == loc[t] IN
       IF l.Offset >= SectionSize
       THEN Commit(Now, t, "idle", NoLoc, NULL)
       ELSE \E outcome \in MapOutcomes :
              LET current == AllocateVacb(Now, l.map, l.Offset)
                  g1 == [Now EXCEPT !.vacb[current] = NewVacb(l.map, l.Offset)]
                  g2 == CcRosVacbIncRefCount(g1, current)
              IN  CASE outcome = "mapped" ->
                         Commit([g2 EXCEPT !.vacb[current].BaseAddress = current],
                                t, "create_insert", [l EXCEPT !.current = current], NULL)
                    [] outcome = "no page" ->
                         Commit(KeBugCheck(g2, "MEMORY_MANAGEMENT"), t, "idle", NoLoc, NULL)
                    [] outcome = "no memory area" ->
                         \* CcRosVacbDecRefCount has freed the body when
                         \* ExFreeToNPagedLookasideList is handed it once more
                         LET g3 == CcRosVacbDecRefCount(g2, current)
                             g4 == ASSERT_(g3, Live(g3, current), "VACB freed twice")
                         IN  Commit([g4 EXCEPT !.vacb[current] = FreedVacb], t, "idle",
                                    NoLoc, NULL)

\* The walk of CcRosCreateVacb: the entry the new VACB goes behind (0: the list
\* head), and whether the walk's assertion on the entries' order held
RECURSIVE PreviousWalk(_, _, _, _, _, _)
PreviousWalk(g, L, i, FileOffset, previous, ok) ==
    IF i > Len(L) THEN [previous |-> previous, ok |-> ok]
    ELSE LET current == Body(g, L[i])
             below == current.FileOffset < FileOffset
             ok2 == ok /\ (below /\ previous # 0
                            => Body(g, L[previous]).FileOffset < current.FileOffset)
             prev2 == IF below THEN i ELSE previous
         IN  IF current.FileOffset > FileOffset THEN [previous |-> prev2, ok |-> ok2]
             ELSE PreviousWalk(g, L, i + 1, FileOffset, prev2, ok2)

\* The new VACB at the head of the list, whatever the list holds
InsertAtHead(g, L, FileOffset) == 0

InsertPosition(g, L, FileOffset) ==
    PreviousWalk(g, L, 1, FileOffset, 0, TRUE).previous

InsertVacb(g, m, new, FileOffset) ==
    LET L == VacbListOf(g, m)
        g0 == ASSERT_(g, PreviousWalk(g, L, 1, FileOffset, 0, TRUE).ok,
                      "ASSERT(previous == NULL || previous->FileOffset < current->FileOffset)")
        g1 == [g0 EXCEPT !.maps[m].CacheMapVacbListHead =
                             InsertAfter(L, InsertPosition(g, L, FileOffset), new),
                         !.vacb[new].CacheMapVacbListEntry = "map"]
    IN  [g1 EXCEPT !.lru = InsertTailList(@, new)]

\* CcRosCreateVacb without its second lookup: the new VACB is inserted whatever
\* the list holds by then
CreateVacb_InsertUnchecked(t) ==
    /\ Running /\ pc[t] = "create_insert"
    /\ LET l == loc[t]
           g0 == TouchMap(Now, l.map)
       IN  IF l.map \in MapIds
           THEN Commit(InsertVacb(g0, l.map, l.current, l.Offset), t, "create_ref", l, NULL)
           ELSE Commit(g0, t, "idle", NoLoc, NULL)

\* CcRosCreateVacb under ViewLock: the second lookup, and the insertion
CreateVacb_Insert(t) ==
    /\ Running /\ pc[t] = "create_insert"
    /\ LET l == loc[t]
           g0 == TouchMap(Now, l.map)
           existing == FoundVacb(g0, l.map, l.Offset)
       IN  IF existing # NULL
           THEN LET g1 == CcRosVacbIncRefCount(g0, existing)
                    g2 == ASSERT_(CcRosVacbDecRefCount(g1, l.current),
                                  RefsAfterDec(g1, l.current) = 0, "ASSERT(Refs == 0)")
                IN  Commit(GetVacbTail(g2, existing), t, "idle", NoLoc, existing)
           ELSE IF l.map \in MapIds
           THEN Commit(InsertVacb(g0, l.map, l.current, l.Offset), t, "create_ref", l, NULL)
           ELSE Commit(g0, t, "idle", NoLoc, NULL)

\* CcRosCreateVacb's last reference ("to allow release"), taken after ViewLock
\* was released, and the end of CcRosGetVacb
CreateVacb_Ref(t) ==
    /\ Running /\ pc[t] = "create_ref"
    /\ LET l == loc[t]
       IN  Commit(GetVacbTail(CcRosVacbIncRefCount(Now, l.current), l.current),
                  t, "idle", NoLoc, l.current)

\* ------------------------------------------------------------ release
\* CcRosReleaseVacb after the dirty mark: the mapping count and the caller's reference
ReleaseTail(g, v, Mapped) ==
    IF ~Live(g, v) THEN UseAfterFree(g)
    ELSE LET g2 == IF Mapped
                   THEN LET g3 == [g EXCEPT !.vacb[v].MappedCount = @ + 1]
                        IN  IF g3.vacb[v].MappedCount = 1
                            THEN CcRosVacbIncRefCount(g3, v)
                            ELSE g3
                   ELSE g
         IN  ASSERT_(CcRosVacbDecRefCount(g2, v), ULONG_GT(RefsAfterDec(g2, v), 0),
                     "ASSERT(Refs > 0)")

\* CcRosReleaseVacb marking the VACB dirty whenever it is told to, without a
\* look at Vacb->Dirty
ReleaseVacbMarksAgain(g, t, v, Valid, Dirty, Mapped, op) ==
    IF ~Live(g, v) THEN Commit(UseAfterFree(g), t, "idle", NoLoc, NULL)
    ELSE LET g1 == [g EXCEPT !.vacb[v].Valid = Valid]
             l == [NoLoc EXCEPT !.op = op, !.current = v, !.Dirty = Dirty,
                                !.Mapped = Mapped]
         IN  IF Dirty
             THEN Commit(ReleaseTail(CcRosMarkDirtyVacb(g1, v), v, Mapped), t, "done", l,
                         NULL)
             ELSE Commit(ReleaseTail(g1, v, Mapped), t, "done", l, NULL)

\* CcRosReleaseVacb, called by op: Valid is written, and Vacb->Dirty read, outside
\* ViewLock.  marked (in ReleaseVacb_Mark): CcRosMarkDirtyVacb was called.
ReleaseVacb(g, t, v, Valid, Dirty, Mapped, op) ==
    IF ~Live(g, v) THEN Commit(UseAfterFree(g), t, "idle", NoLoc, NULL)
    ELSE LET g1 == [g EXCEPT !.vacb[v].Valid = Valid]
             l == [NoLoc EXCEPT !.op = op, !.current = v, !.Dirty = Dirty,
                                !.Mapped = Mapped]
         IN  IF Dirty /\ ~g.vacb[v].Dirty
             THEN Commit(g1, t, "release_mark", l, NULL)
             ELSE Commit(ReleaseTail(g1, v, Mapped), t, "done", l, NULL)

\* The caller of request_region gives the VACB back
CcRosReleaseVacb(t, Valid, Dirty, Mapped) ==
    /\ Idle(t) /\ held[t] # NULL
    /\ Mapped => Body(Now, held[t]).MappedCount < MaxMapped
    /\ ReleaseVacb(Now, t, held[t], Valid, Dirty, Mapped, "release_region")

\* CcRosMarkDirtyVacb under ViewLock, then the rest of CcRosReleaseVacb
ReleaseVacb_Mark(t) ==
    /\ Running /\ pc[t] = "release_mark"
    /\ Commit(ReleaseTail(CcRosMarkDirtyVacb(Now, loc[t].current), loc[t].current,
                          loc[t].Mapped),
              t, "done", [loc[t] EXCEPT !.marked = TRUE], NULL)

\* ------------------------------------------------------------ mark dirty, unmap
CcRosMarkDirtyFile(t, f, FileOffset) ==
    /\ Idle(t) /\ held[t] = NULL /\ Opened(t, f)
    /\ LET m == SectionPtr[f]
           Vacb == FoundVacb(Now, m, FileOffset)
           g == CcRosLookupVacb(Now, m, FileOffset)
       IN  IF Vacb = NULL
           THEN Commit(KeBugCheck(g, "CACHE_MANAGER: no VACB to mark"), t, "idle",
                       NoLoc, NULL)
           ELSE ReleaseVacb(g, t, Vacb, Body(g, Vacb).Valid, TRUE, FALSE, "mark_dirty")

\* The caller unmaps a view it mapped before (a release with Mapped)
CcRosUnmapVacb(t, f, FileOffset, NowDirty) ==
    /\ Idle(t) /\ held[t] = NULL /\ Opened(t, f)
    /\ LET m == SectionPtr[f]
           Vacb == FoundVacb(Now, m, FileOffset)
           g == CcRosLookupVacb(Now, m, FileOffset)
       IN  /\ Vacb # NULL
           /\ Body(Now, Vacb).MappedCount > 0
           /\ LET g1 == ASSERT_(g, Body(g, Vacb).MappedCount # 0,
                                "ASSERT(Vacb->MappedCount != 0)")
                  g2 == [g1 EXCEPT !.vacb[Vacb].MappedCount = @ - 1]
                  g3 == IF g2.vacb[Vacb].MappedCount = 0
                        THEN CcRosVacbDecRefCount(g2, Vacb)
                        ELSE g2
              IN  ReleaseVacb(g3, t, Vacb, Body(g3, Vacb).Valid, NowDirty, FALSE,
                              "unmap_region")

\* ------------------------------------------------------------ flush_cache
\* The ranges CcFlushCache is called with: <<FileOffset given, its value, Length>>
FlushRanges ==
    {<<FALSE, 0, 0>>} \cup {<<TRUE, o, VACB_MAPPING_GRANULARITY>> : o \in AlignedOffsets}

\* CcFlushCache up to its loop; HasIoStatus: the caller gave an IoStatus
FlushCacheBegin(t, l, f, range, HasIoStatus) ==
    LET m == SectionPtr[f]
    IN  IF m = NULL
        THEN IF l.cont = "delete"
             THEN Commit(Now, t, "delete_locked", l, held[t])
             ELSE Commit(Now, t, "done",
                         [l EXCEPT !.IoStatus = "STATUS_INVALID_PARAMETER"], held[t])
        ELSE Commit(TouchMap(Now, m), t, "fc_loop",
                    [l EXCEPT !.map = m, !.range = range,
                              !.Offset = IF range[1] THEN range[2] ELSE 0,
                              !.RemainingLength = IF range[1] THEN range[3]
                                                  ELSE SectionSize,
                              !.IoStatus = IF HasIoStatus THEN "STATUS_SUCCESS" ELSE "",
                              !.current = NULL],
                    held[t])

CcFlushCache(t, f, range) ==
    /\ Idle(t) /\ held[t] = NULL /\ Opened(t, f)
    /\ FlushCacheBegin(t, [NoLoc EXCEPT !.op = "flush_cache", !.f = f], f, range, TRUE)

\* The flush CcRosDeleteFileCache issues once it has released ViewLock
FlushCache_Begin(t) ==
    /\ Running /\ pc[t] = "fc_begin"
    /\ FlushCacheBegin(t, loc[t], loc[t].f, <<FALSE, 0, 0>>, FALSE)

\* The end of one round of CcFlushCache's loop
FlushCacheAdvance(g, t, l) ==
    LET rem == l.RemainingLength - Min(l.RemainingLength, VACB_MAPPING_GRANULARITY)
        l2 == [l EXCEPT !.Offset = @ + VACB_MAPPING_GRANULARITY,
                        !.RemainingLength = rem, !.current = NULL]
    IN  IF rem > 0 THEN Commit(g, t, "fc_loop", l2, held[t])
        ELSE IF l.cont = "delete" THEN Commit(g, t, "delete_locked", l2, held[t])
        ELSE Commit(g, t, "done", l2, held[t])

\* One round of the loop up to CcWriteVirtualAddress; all of it where the VACB
\* is clean or there is none.  The release at the end of a round is handed the
\* VACB's own Valid and Dirty, so it is CcRosReleaseVacb without its dirty mark.
FlushCache_Loop(t) ==
    /\ Running /\ pc[t] = "fc_loop"
    /\ LET l == loc[t]
           current == FoundVacb(Now, l.map, l.Offset)
           g == CcRosLookupVacb(Now, l.map, l.Offset)
       IN  IF current = NULL THEN FlushCacheAdvance(g, t, l)
           ELSE IF Body(g, current).Dirty
           THEN Commit(g, t, "fc_write", [l EXCEPT !.current = current], held[t])
           ELSE FlushCacheAdvance(ReleaseTail(g, current, FALSE), t, l)

\* CcFlushCache keeping the status of the first write that failed
FlushCache_WriteKeepsFirst(t, Status) ==
    /\ Running /\ pc[t] = "fc_write"
    /\ LET l == loc[t]
           current == l.current
           g == CcRosFlushVacb(Now, current, Status)
           l2 == [l EXCEPT !.IoStatus = IF ~NT_SUCCESS(Status) /\ @ = "STATUS_SUCCESS"
                                        THEN Status ELSE @,
                           !.written = Append(@, <<l.Offset, Status>>)]
       IN  FlushCacheAdvance(ReleaseTail(g, current, FALSE), t, l2)

\* CcWriteVirtualAddress has returned Status: the rest of CcRosFlushVacb, and of the round
FlushCache_Write(t, Status) ==
    /\ Running /\ pc[t] = "fc_write"
    /\ LET l == loc[t]
           current == l.current
           g == CcRosFlushVacb(Now, current, Status)
           l2 == [l EXCEPT !.IoStatus = IF ~NT_SUCCESS(Status) /\ @ # "" THEN Status
                                        ELSE @,
                           !.written = Append(@, <<l.Offset, Status>>)]
       IN  FlushCacheAdvance(ReleaseTail(g, current, FALSE), t, l2)

\* ------------------------------------------------------------ flush_dirty
Targets == {1, 2 * PagesPerVacb}

\* The loop of CcRosFlushDirtyPages if the reference of the list the VACB is on
\* counted among those the test of line 234 allows: it stops to write a dirty
\* VACB nobody else holds
RECURSIVE FlushDirtyWalkWrites(_, _, _, _)
FlushDirtyWalkWrites(g, l, current_entry, Locked) ==
    IF current_entry = NULL \/ ~ULONG_GT(l.Target, 0) \/ g.fault # ""
    THEN [g |-> g, l |-> [l EXCEPT !.current = NULL, !.current_entry = NULL]]
    ELSE IF ~Live(g, current_entry)
    THEN [g |-> UseAfterFree(g), l |-> l]
    ELSE LET current == current_entry
             next == Flink(current, g.dirty)
             m == g.vacb[current].SharedCacheMap
             g1 == CcRosVacbIncRefCount(TouchMap(g, m), current)
         IN  IF l.CalledFromLazy /\ MapBody(g, m).FileObject \in TemporaryFiles
             THEN FlushDirtyWalkWrites(CcRosVacbDecRefCount(g1, current), l, next, Locked)
             ELSE IF ~(m \in MapIds /\ Locked[m])
             THEN FlushDirtyWalkWrites(CcRosVacbDecRefCount(g1, current),
                                       [l EXCEPT !.refused = TRUE], next, Locked)
             ELSE LET g2 == ASSERT_(g1, g1.vacb[current].Dirty, "ASSERT(current->Dirty)")
                  IN  IF ULONG_GT(g2.vacb[current].ReferenceCount, 3)
                      THEN FlushDirtyWalkWrites(CcRosVacbDecRefCount(g2, current), l, next,
                                                Locked)
                      ELSE [g |-> g2,
                            l |-> [l EXCEPT !.current = current, !.current_entry = next]]

\* The loop of CcRosFlushDirtyPages under ViewLock, from current_entry on, up to
\* the VACB it stops at to write (NULL: it went to the end).  Locked: what
\* AcquireForLazyWrite answers, per map.
RECURSIVE FlushDirtyWalk(_, _, _, _)
FlushDirtyWalk(g, l, current_entry, Locked) ==
    IF current_entry = NULL \/ ~ULONG_GT(l.Target, 0) \/ g.fault # ""
    THEN [g |-> g, l |-> [l EXCEPT !.current = NULL, !.current_entry = NULL]]
    ELSE IF ~Live(g, current_entry)
    THEN [g |-> UseAfterFree(g), l |-> l]
    ELSE LET current == current_entry
             next == Flink(current, g.dirty)
             m == g.vacb[current].SharedCacheMap
             g1 == CcRosVacbIncRefCount(TouchMap(g, m), current)
         IN  IF l.CalledFromLazy /\ MapBody(g, m).FileObject \in TemporaryFiles
             THEN FlushDirtyWalk(CcRosVacbDecRefCount(g1, current), l, next, Locked)
             ELSE IF ~(m \in MapIds /\ Locked[m])
             THEN FlushDirtyWalk(CcRosVacbDecRefCount(g1, current),
                                 [l EXCEPT !.refused = TRUE], next, Locked)
             ELSE LET g2 == ASSERT_(g1, g1.vacb[current].Dirty, "ASSERT(current->Dirty)")
                  IN  IF ULONG_GT(g2.vacb[current].ReferenceCount, 2)
                      THEN FlushDirtyWalk(CcRosVacbDecRefCount(g2, current), l, next,
                                          Locked)
                      ELSE [g |-> g2,
                            l |-> [l EXCEPT !.current = current, !.current_entry = next]]

\* The end of the iteration if Target were reduced without the test of
\* line 265
FlushDirtyAccountUnclamped(l) ==
    IF ~NT_SUCCESS(l.Status) /\ l.Status # "STATUS_END_OF_FILE"
       /\ l.Status # "STATUS_MEDIA_WRITE_PROTECTED"
    THEN l
    ELSE [l EXCEPT !.Count = @ + PagesPerVacb, !.Target = @ - PagesPerVacb]

\* The end of the iteration that wrote a VACB (lines 250 to 277)
FlushDirtyAccount(l) ==
    IF ~NT_SUCCESS(l.Status) /\ l.Status # "STATUS_END_OF_FILE"
       /\ l.Status # "STATUS_MEDIA_WRITE_PROTECTED"
    THEN l
    ELSE LET PagesFreed == PagesPerVacb
         IN  [l EXCEPT !.Count = @ + PagesFreed,
                       !.Target = IF ULONG_LT(@, PagesFreed) THEN 0 ELSE @ - PagesFreed]

\* The final loop of CcRosTrimCache: the staged VACBs lose their last reference
RECURSIVE TrimFree(_, _)
TrimFree(g, FreeList) ==
    IF FreeList = <<>> THEN g
    ELSE LET current == Head(FreeList)
         IN  IF ~Live(g, current) THEN UseAfterFree(g)
             ELSE LET g1 == [g EXCEPT !.vacb[current].CacheMapVacbListEntry = "empty"]
                      g2 == ASSERT_(CcRosVacbDecRefCount(g1, current),
                                    RefsAfterDec(g1, current) = 0, "ASSERT(Refs == 0)")
                  IN  TrimFree(g2, Tail(FreeList))

\* Where a walk of CcRosFlushDirtyPages leaves the thread
FlushDirtyEnd(r, t) ==
    IF r.l.current # NULL THEN Commit(r.g, t, "fd_write", r.l, held[t])
    ELSE IF r.l.cont # "trim" THEN Commit(r.g, t, "done", r.l, held[t])
    ELSE \* back in CcRosTrimCache, lines 385 to 410
         LET PagesFreed == r.l.Count
             l2 == [r.l EXCEPT !.FlushedPages = TRUE,
                               !.TrimTarget = IF ULONG_LT(PagesFreed, @) THEN PagesFreed
                                              ELSE @]
         IN  IF PagesFreed # 0 THEN Commit(r.g, t, "trim_retry", l2, held[t])
             ELSE Commit(TrimFree(r.g, l2.FreeList), t, "done",
                         [l2 EXCEPT !.FreeList = <<>>], held[t])

\* CcRosFlushDirtyPages as the lazy writer and the write throttle call it
CcRosFlushDirtyPages(t, Target, CalledFromLazy) ==
    /\ Idle(t) /\ held[t] = NULL
    /\ \E Locked \in [MapIds -> BOOLEAN] :
         FlushDirtyEnd(FlushDirtyWalk(Now,
                                      [NoLoc EXCEPT !.op = "flush_dirty", !.Target = Target,
                                                    !.CalledFromLazy = CalledFromLazy],
                                      First(DirtyVacbListHead), Locked), t)

\* The later steps of CcRosFlushDirtyPages: its start when CcRosTrimCache calls
\* it, the write of the VACB it stopped at, and the walk from the head after it
FlushDirty_Step(t) ==
    /\ Running /\ pc[t] \in {"fd_walk", "fd_write", "fd_resume"}
    /\ LET l == loc[t]
       IN  CASE pc[t] = "fd_walk" ->
                  \E Locked \in [MapIds -> BOOLEAN] :
                    FlushDirtyEnd(FlushDirtyWalk(Now, l, First(DirtyVacbListHead), Locked), t)
             [] pc[t] = "fd_write" ->
                  \E Status \in Statuses :
                    Commit(CcRosFlushVacb(Now, l.current, Status), t, "fd_resume",
                           [l EXCEPT !.Status = Status,
                                     !.written = Append(@, <<Body(Now, l.current).FileOffset,
                                                             Status>>)],
                           held[t])
             [] pc[t] = "fd_resume" ->
                  \E Locked \in [MapIds -> BOOLEAN] :
                    LET g == CcRosVacbDecRefCount(Now, l.current)
                    IN  FlushDirtyEnd(FlushDirtyWalk(g, FlushDirtyAccount(l),
                                                     First(g.dirty), Locked), t)

\* ------------------------------------------------------------ trim_cache
\* The loop of CcRosTrimCache under ViewLock, from current_entry on, up to the
\* VACB it stops at to page out (NULL: it went to the end)
RECURSIVE TrimWalk(_, _, _)
RECURSIVE TrimRest(_, _, _, _)
TrimWalk(g, l, current_entry) ==
    IF current_entry = NULL \/ g.fault # ""
    THEN [g |-> g, l |-> [l EXCEPT !.current = NULL, !.current_entry = NULL]]
    ELSE IF ~Live(g, current_entry)
    THEN [g |-> UseAfterFree(g), l |-> [l EXCEPT !.current = NULL]]
    ELSE IF ~InSeq(current_entry, g.lru)
    THEN [g |-> Fail(g, "the walk goes on from an entry that left the LRU list"),
          l |-> [l EXCEPT !.current = NULL]]
    ELSE LET current == current_entry
             next == Flink(current, g.lru)
             g1 == CcRosVacbIncRefCount(TouchMap(g, g.vacb[current].SharedCacheMap),
                                        current)
         IN  IF g1.vacb[current].MappedCount > 0 /\ ~g1.vacb[current].Dirty
             THEN [g |-> g1, l |-> [l EXCEPT !.current = current, !.current_entry = next]]
             ELSE TrimRest(g1, l, current, next)

\* Lines 355 to 375: the reference is dropped, the VACB staged if nobody else has one
\* (staged: the VACBs the call has put on its FreeList, in the order it did)
TrimRest(g, l, current, next) ==
    IF ~Live(g, current)
    THEN [g |-> UseAfterFree(g), l |-> [l EXCEPT !.current = NULL]]
    ELSE LET Refs == RefsAfterDec(g, current)
             m == g.vacb[current].SharedCacheMap
             g1 == CcRosVacbDecRefCount(g, current)
         IN  IF ~ULONG_LT(Refs, 2) THEN TrimWalk(g1, l, next)
             ELSE LET g2 == ASSERT_(g1, ~g.vacb[current].Dirty, "ASSERT(!current->Dirty)")
                      g3 == ASSERT_(g2, g.vacb[current].MappedCount = 0,
                                    "ASSERT(!current->MappedCount)")
                      g4 == ASSERT_(g3, Refs = 1, "ASSERT(Refs == 1)")
                      g5 == IF m \in MapIds
                            THEN [g4 EXCEPT !.maps[m].CacheMapVacbListHead =
                                                RemoveEntryList(current, @)]
                            ELSE g4
                      g6 == [g5 EXCEPT !.lru = RemoveEntryList(current, @),
                                       !.vacb[current].CacheMapVacbListEntry =
                                           IF Live(g5, current) THEN "staged" ELSE @]
                      PagesFreed == Min(PagesPerVacb, l.TrimTarget)
                      l2 == [l EXCEPT !.FreeList = InsertHeadList(@, current),
                                      !.staged = Append(@, current),
                                      !.TrimTarget = @ - PagesFreed,
                                      !.NrFreed = @ + PagesFreed]
                  IN  TrimWalk(g6, l2, next)

\* Where a walk of CcRosTrimCache leaves the thread
TrimEnd(r, t) ==
    IF r.l.current # NULL THEN Commit(r.g, t, "trim_pageout", r.l, held[t])
    ELSE IF ULONG_GT(r.l.TrimTarget, 0) /\ ~r.l.FlushedPages
    THEN Commit(r.g, t, "fd_walk",
                [r.l EXCEPT !.cont = "trim", !.Target = r.l.TrimTarget, !.Count = 0,
                            !.CalledFromLazy = FALSE], held[t])
    ELSE Commit(TrimFree(r.g, r.l.FreeList), t, "done", [r.l EXCEPT !.FreeList = <<>>],
                held[t])

CcRosTrimCache(t, Target) ==
    /\ Idle(t) /\ held[t] = NULL
    /\ TrimEnd(TrimWalk(Now, [NoLoc EXCEPT !.op = "trim_cache", !.TrimTarget = Target],
                        First(VacbLruListHead)), t)

\* The later steps of CcRosTrimCache: after the page-out it goes on with the
\* entry it saved before; after a flush that wrote something it walks once more
Trim_Step(t) ==
    /\ Running /\ pc[t] \in {"trim_pageout", "trim_retry"}
    /\ LET l == loc[t]
       IN  IF pc[t] = "trim_retry"
           THEN TrimEnd(TrimWalk(Now, l, First(VacbLruListHead)), t)
           ELSE TrimEnd(TrimRest(Now, l, l.current, l.current_entry), t)

\* ------------------------------------------------------------ close
\* CcRosDeleteFileCache up to the release of ViewLock (line 1077)
DeleteFileCacheEnter(g, t, f, SharedCacheMap) ==
    Commit([TouchMap(g, SharedCacheMap) EXCEPT !.maps[SharedCacheMap].OpenCount = @ + 1],
           t, "fc_begin",
           [NoLoc EXCEPT !.op = "delete_file_cache", !.f = f,
                         !.SharedCacheMap = SharedCacheMap, !.cont = "delete"],
           held[t])

CcRosReleaseFileCache(t, f) ==
    /\ Idle(t) /\ held[t] = NULL /\ PrivateCacheMap[t][f].kind # "none"
    /\ LET SharedCacheMap == SectionPtr[f]
           PrivateMap == PrivateCacheMap[t][f]
           g1 == [Now EXCEPT !.priv[t][f] = NoPrivateMap]
           g2 == IF PrivateMap = InlinePrivateMap(SharedCacheMap)
                 THEN [g1 EXCEPT !.maps[SharedCacheMap].PrivateInline = FALSE]
                 ELSE ASSERT_(g1, PrivateMap = PoolPrivateMap,
                              "ExFreePoolWithTag of another map's inline PrivateCacheMap")
           g3 == IF g2.maps[SharedCacheMap].OpenCount > 0
                 THEN [g2 EXCEPT !.maps[SharedCacheMap].OpenCount = @ - 1]
                 ELSE g2
       IN  IF SharedCacheMap = NULL THEN Commit(Now, t, "idle", NoLoc, NULL)
           ELSE IF maps[SharedCacheMap].OpenCount > 0
                   /\ g3.maps[SharedCacheMap].OpenCount = 0
           THEN DeleteFileCacheEnter(g3, t, f, SharedCacheMap)
           ELSE Commit(TouchMap(g3, SharedCacheMap), t, "idle", NoLoc, NULL)

\* The loop of lines 1094 to 1118: every VACB of the map leaves the lists
RECURSIVE DeleteWalk(_, _, _)
DeleteWalk(g, m, FreeList) ==
    IF g.maps[m].CacheMapVacbListHead = <<>> \/ g.fault # ""
    THEN [g |-> g, FreeList |-> FreeList]
    ELSE LET L == g.maps[m].CacheMapVacbListHead
             current == L[Len(L)]
             g1 == [g EXCEPT !.maps[m].CacheMapVacbListHead = SubSeq(L, 1, Len(L) - 1)]
         IN  IF ~Live(g1, current) THEN [g |-> UseAfterFree(g1), FreeList |-> FreeList]
             ELSE LET g2 == [g1 EXCEPT !.lru = RemoveEntryList(current, @)]
                      g3 == IF g2.vacb[current].Dirty
                            THEN CcRosUnmarkDirtyVacb(g2, current)
                            ELSE g2
                      g4 == IF Body(g3, current).MappedCount # 0
                            THEN ASSERT_(CcRosVacbDecRefCount(
                                             [g3 EXCEPT !.vacb[current].MappedCount = 0],
                                             current),
                                         ULONG_GT(RefsAfterDec(g3, current), 0),
                                         "NT_VERIFY(CcRosVacbDecRefCount(current) > 0)")
                            ELSE g3
                      g5 == IF Live(g4, current)
                            THEN [g4 EXCEPT !.vacb[current].CacheMapVacbListEntry =
                                                "staged"]
                            ELSE g4
                  IN  DeleteWalk(g5, m, InsertHeadList(FreeList, current))

\* Lines 1127 to 1161: the staged VACBs lose a reference; one that keeps some is leaked
RECURSIVE DeleteFree(_, _)
DeleteFree(g, FreeList) ==
    IF FreeList = <<>> THEN g
    ELSE LET current == FreeList[Len(FreeList)]
             rest == SubSeq(FreeList, 1, Len(FreeList) - 1)
         IN  IF ~Live(g, current) THEN UseAfterFree(g)
             ELSE DeleteFree(CcRosVacbDecRefCount(
                                 [g EXCEPT !.vacb[current].CacheMapVacbListEntry = "empty"],
                                 current), rest)

\* CcRosDeleteFileCache from line 1081 on
Delete_Step(t) ==
    /\ Running /\ pc[t] \in {"delete_locked", "delete_free"}
    /\ LET l == loc[t]
           m == l.SharedCacheMap
       IN  IF pc[t] = "delete_locked"
           THEN LET g1 == [TouchMap(Now, m) EXCEPT !.maps[m].OpenCount = @ - 1]
                IN  IF g1.maps[m].OpenCount # 0 THEN Commit(g1, t, "idle", NoLoc, held[t])
                    ELSE LET r == DeleteWalk([g1 EXCEPT !.sect[l.f] = NULL], m, <<>>)
                         IN  Commit(r.g, t, "delete_free",
                                    [l EXCEPT !.FreeList = r.FreeList], held[t])
           ELSE LET g1 == DeleteFree(Now, l.FreeList)
                    g2 == [TouchMap(g1, m) EXCEPT !.clean = RemoveEntryList(m, @),
                                                  !.maps[m] = FreedMap]
                IN  Commit(g2, t, "idle", NoLoc, held[t])

\* ------------------------------------------------------------ Mm's references
MaxMmRefs == 1

CcRosReferenceCache(t, f) ==
    /\ Idle(t) /\ held[t] = NULL /\ Opened(t, f) /\ mmRefs[f] < MaxMmRefs
    /\ LET SharedCacheMap == SectionPtr[f]
           g1 == ASSERT_(TouchMap(Now, SharedCacheMap),
                         maps[SharedCacheMap].OpenCount # 0,
                         "ASSERT(SharedCacheMap->OpenCount != 0)")
       IN  Commit([g1 EXCEPT !.maps[SharedCacheMap].OpenCount = @ + 1,
                             !.mm[f] = @ + 1], t, "idle", NoLoc, NULL)

CcRosDereferenceCache(t, f) ==
    /\ Idle(t) /\ held[t] = NULL /\ mmRefs[f] > 0
    /\ LET SharedCacheMap == SectionPtr[f]
           g0 == [Now EXCEPT !.mm[f] = @ - 1]
       IN  IF SharedCacheMap = NULL
           THEN Commit(Fail(g0, "ASSERT(SharedCacheMap)"), t, "idle", NoLoc, NULL)
           ELSE LET g1 == TouchMap(g0, SharedCacheMap)
                    g2 == IF maps[SharedCacheMap].OpenCount > 0
                          THEN [g1 EXCEPT !.maps[SharedCacheMap].OpenCount = @ - 1]
                          ELSE g1
                IN  IF maps[SharedCacheMap].OpenCount > 0
                       /\ g2.maps[SharedCacheMap].OpenCount = 0
                    THEN DeleteFileCacheEnter(g2, t, f, SharedCacheMap)
                    ELSE Commit(g2, t, "idle", NoLoc, NULL)

CcRosRemoveIfClosed(t, f) ==
    /\ Idle(t) /\ held[t] = NULL
    /\ LET SharedCacheMap == SectionPtr[f]
       IN  IF SharedCacheMap # NULL /\ maps[SharedCacheMap].OpenCount = 0
           THEN DeleteFileCacheEnter(Now, t, f, SharedCacheMap)
           ELSE Commit(IF SharedCacheMap # NULL THEN TouchMap(Now, SharedCacheMap) ELSE Now,
                       t, "idle", NoLoc, NULL)

\* ------------------------------------------------------------ specifications
\* Offsets callers pass to request_region: the windows of the section, the
\* first offset beyond it, and one that is not a multiple of the granularity
RequestOffsets == AlignedOffsets \cup {SectionSize, PAGE_SIZE}

\* Every operation, by every thread, on every file
Next ==
    \/ \E t \in Threads, f \in Files : InitializeFileCache_Read(t, f)
    \/ \E t \in Threads : InitializeFileCache_Locked(t)
    \/ \E t \in Threads, f \in Files, o \in RequestOffsets : CcRosRequestVacb(t, f, o)
    \/ \E t \in Threads : CreateVacb_Alloc(t)
    \/ \E t \in Threads : CreateVacb_Insert(t)
    \/ \E t \in Threads : CreateVacb_Ref(t)
    \/ \E t \in Threads, Valid \in BOOLEAN, Dirty \in BOOLEAN, Mapped \in BOOLEAN :
         CcRosReleaseVacb(t, Valid, Dirty, Mapped)
    \/ \E t \in Threads : ReleaseVacb_Mark(t)
    \/ \E t \in Threads, f \in Files, o \in AlignedOffsets : CcRosMarkDirtyFile(t, f, o)
    \/ \E t \in Threads, f \in Files, o \in AlignedOffsets, NowDirty \in BOOLEAN :
         CcRosUnmapVacb(t, f, o, NowDirty)
    \/ \E t \in Threads, f \in Files, r \in FlushRanges : CcFlushCache(t, f, r)
    \/ \E t \in Threads : FlushCache_Begin(t)
    \/ \E t \in Threads : FlushCache_Loop(t)
    \/ \E t \in Threads, Status \in Statuses : FlushCache_Write(t, Status)
    \/ \E t \in Threads, Target \in Targets, CalledFromLazy \in BOOLEAN :
         CcRosFlushDirtyPages(t, Target, CalledFromLazy)
    \/ \E t \in Threads : FlushDirty_Step(t)
    \/ \E t \in Threads, Target \in Targets : CcRosTrimCache(t, Target)
    \/ \E t \in Threads : Trim_Step(t)
    \/ \E t \in Threads, f \in Files : CcRosReleaseFileCache(t, f)
    \/ \E t \in Threads : Delete_Step(t)
    \/ \E t \in Threads, f \in Files : CcRosReferenceCache(t, f)
    \/ \E t \in Threads, f \in Files : CcRosDereferenceCache(t, f)
    \/ \E t \in Threads, f \in Files : CcRosRemoveIfClosed(t, f)
    \/ \E t \in Threads : Return(t)

Spec == Init /\ [][Next]_vars

\* One thread, one file, every operation
NextSeq ==
    \/ InitializeFileCache_Read(1, 1)
    \/ InitializeFileCache_Locked(1)
    \/ \E o \in RequestOffsets : CcRosRequestVacb(1, 1, o)
    \/ CreateVacb_Alloc(1)
    \/ CreateVacb_Insert(1)
    \/ CreateVacb_Ref(1)
    \/ \E Valid \in BOOLEAN, Dirty \in BOOLEAN, Mapped \in BOOLEAN :
         CcRosReleaseVacb(1, Valid, Dirty, Mapped)
    \/ ReleaseVacb_Mark(1)
    \/ \E o \in AlignedOffsets : CcRosMarkDirtyFile(1, 1, o)
    \/ \E o \in AlignedOffsets, NowDirty \in BOOLEAN : CcRosUnmapVacb(1, 1, o, NowDirty)
    \/ \E r \in FlushRanges : CcFlushCache(1, 1, r)
    \/ FlushCache_Begin(1)
    \/ FlushCache_Loop(1)
    \/ \E Status \in Statuses : FlushCache_Write(1, Status)
    \/ \E Target \in Targets, CalledFromLazy \in BOOLEAN :
         CcRosFlushDirtyPages(1, Target, CalledFromLazy)
    \/ FlushDirty_Step(1)
    \/ \E Target \in Targets : CcRosTrimCache(1, Target)
    \/ Trim_Step(1)
    \/ CcRosReleaseFileCache(1, 1)
    \/ Delete_Step(1)
    \/ CcRosReferenceCache(1, 1)
    \/ CcRosDereferenceCache(1, 1)
    \/ CcRosRemoveIfClosed(1, 1)
    \/ Return(1)

SpecSeq == Init /\ [][NextSeq]_vars

\* The state after every thread has opened file 1 for caching, one after the
\* other: the first handle has the map's own private map, the others the pool's
InitOpened ==
    /\ vacb = [v \in VacbIds |-> FreedVacb]
    /\ maps = [m \in MapIds |->
                 IF m = 1
                 THEN [NewSharedCacheMap(1) EXCEPT !.OpenCount = NumThreads,
                                                   !.PrivateInline = TRUE]
                 ELSE FreedMap]
    /\ DirtyVacbListHead = <<>>
    /\ VacbLruListHead = <<>>
    /\ CcTotalDirtyPages = 0
    /\ CcCleanSharedCacheMapList = <<1>>
    /\ SectionPtr = [f \in Files |-> IF f = 1 THEN 1 ELSE NULL]
    /\ PrivateCacheMap = [t \in Threads |-> [f \in Files |->
                            IF f # 1 THEN NoPrivateMap
                            ELSE IF t = 1 THEN InlinePrivateMap(1) ELSE PoolPrivateMap]]
    /\ mmRefs = [f \in Files |-> 0]
    /\ pc = [t \in Threads |-> "idle"]
    /\ loc = [t \in Threads |-> NoLoc]
    /\ held = [t \in Threads |-> NULL]
    /\ halt = <<"run", "">>
    /\ GdiInit
    /\ LockInit

\* Two threads request and release the regions of one open file
NextRequest ==
    \/ \E t \in Threads, o \in AlignedOffsets : CcRosRequestVacb(t, 1, o)
    \/ \E t \in Threads : CreateVacb_Alloc(t)
    \/ \E t \in Threads : CreateVacb_Insert(t)
    \/ \E t \in Threads : CreateVacb_Ref(t)
    \/ \E t \in Threads, Dirty \in BOOLEAN, Mapped \in BOOLEAN :
         CcRosReleaseVacb(t, TRUE, Dirty, Mapped)
    \/ \E t \in Threads : ReleaseVacb_Mark(t)
    \/ \E t \in Threads : Return(t)

SpecRequest == InitOpened /\ [][NextRequest]_vars

\* What the writes of the two-thread specifications come to
WriteOutcomes == {"STATUS_SUCCESS", "STATUS_UNSUCCESSFUL"}

\* Two threads dirty and flush the regions of one open file
NextDirty ==
    \/ \E t \in Threads, o \in AlignedOffsets : CcRosRequestVacb(t, 1, o)
    \/ \E t \in Threads : CreateVacb_Alloc(t)
    \/ \E t \in Threads : CreateVacb_Insert(t)
    \/ \E t \in Threads : CreateVacb_Ref(t)
    \/ \E t \in Threads, Dirty \in BOOLEAN : CcRosReleaseVacb(t, TRUE, Dirty, FALSE)
    \/ \E t \in Threads : ReleaseVacb_Mark(t)
    \/ \E t \in Threads, o \in AlignedOffsets : CcRosMarkDirtyFile(t, 1, o)
    \/ \E t \in Threads : CcFlushCache(t, 1, <<FALSE, 0, 0>>)
    \/ \E t \in Threads : FlushCache_Loop(t)
    \/ \E t \in Threads, Status \in WriteOutcomes : FlushCache_Write(t, Status)
    \/ \E t \in Threads : CcRosFlushDirtyPages(t, PagesPerVacb, FALSE)
    \/ \E t \in Threads : Return(t)

SpecDirty == InitOpened /\ [][NextDirty]_vars

\* Two threads request the regions of one open file, trim the cache, and
\* close the file
NextLife ==
    \/ \E t \in Threads, o \in AlignedOffsets : CcRosRequestVacb(t, 1, o)
    \/ \E t \in Threads : CreateVacb_Alloc(t)
    \/ \E t \in Threads : CreateVacb_Insert(t)
    \/ \E t \in Threads : CreateVacb_Ref(t)
    \/ \E t \in Threads, Mapped \in BOOLEAN : CcRosReleaseVacb(t, TRUE, FALSE, Mapped)
    \/ \E t \in Threads : CcRosTrimCache(t, PagesPerVacb)
    \/ \E t \in Threads : Trim_Step(t)
    \/ \E t \in Threads : FlushDirty_Step(t)
    \/ \E t \in Threads : CcRosReleaseFileCache(t, 1)
    \/ \E t \in Threads : FlushCache_Begin(t)
    \/ \E t \in Threads : FlushCache_Loop(t)
    \/ \E t \in Threads : Delete_Step(t)
    \/ \E t \in Threads : Return(t)

SpecLife == InitOpened /\ [][NextLife]_vars

\* Two threads open and close one file, and the memory manager takes and drops
\* its references to the file's cache
NextOpen ==
    \/ \E t \in Threads : InitializeFileCache_Read(t, 1)
    \/ \E t \in Threads : InitializeFileCache_Locked(t)
    \/ \E t \in Threads : CcRosReleaseFileCache(t, 1)
    \/ \E t \in Threads : FlushCache_Begin(t)
    \/ \E t \in Threads : FlushCache_Loop(t)
    \/ \E t \in Threads : Delete_Step(t)
    \/ \E t \in Threads : CcRosReferenceCache(t, 1)
    \/ \E t \in Threads : CcRosDereferenceCache(t, 1)
    \/ \E t \in Threads : CcRosRemoveIfClosed(t, 1)

SpecOpen == Init /\ [][NextOpen]_vars

\* Two threads request, dirty and release the windows of one open file while
\* the memory manager trims the cache
NextLru ==
    \/ \E t \in Threads, o \in AlignedOffsets : CcRosRequestVacb(t, 1, o)
    \/ \E t \in Threads : CreateVacb_Alloc(t)
    \/ \E t \in Threads : CreateVacb_Insert(t)
    \/ \E t \in Threads : CreateVacb_Ref(t)
    \/ \E t \in Threads, Dirty, Mapped \in BOOLEAN : CcRosReleaseVacb(t, TRUE, Dirty, Mapped)
    \/ \E t \in Threads : ReleaseVacb_Mark(t)
    \/ \E t \in Threads : CcRosTrimCache(t, PagesPerVacb)
    \/ \E t \in Threads : Trim_Step(t)
    \/ \E t \in Threads : FlushDirty_Step(t)
    \/ \E t \in Threads : Return(t)

SpecLru == InitOpened /\ [][NextLru]_vars


\* ------------------------------------------------------------ claims
\* Thread t is the only one at work, and v is the cache's one dirty VACB, which
\* nobody has borrowed and nobody has mapped
OneDirtyVacb(t, v) ==
    /\ Idle(t)
    /\ \A u \in Threads : held[u] = NULL /\ (u # t => pc[u] = "idle")
    /\ DirtyVacbListHead = <<v>>
    /\ {w \in VacbIds : vacb[w].state = "live" /\ vacb[w].Dirty} = {v}
    /\ vacb[v].MappedCount = 0
    /\ CcTotalDirtyPages = PagesPerVacb

\* What flush_dirty has come to for thread t and the VACB v it found dirty: the
\* write of v is under way, or the call is over after one write of v that
\* succeeded, v is clean and off the dirty list, no page is dirty, and the
\* count reported is that of one VACB
FlushDirtyWroteOnce(t, v) ==
    \/ pc[t] \in {"fd_write", "fd_resume"} /\ loc[t].current = v
    \/ /\ pc[t] = "done"
       /\ loc[t].written = <<<<vacb[v].FileOffset, "STATUS_SUCCESS">>>>
       /\ ~vacb[v].Dirty
       /\ DirtyVacbListHead = <<>>
       /\ CcTotalDirtyPages = 0
       /\ loc[t].Count = PagesPerVacb

\* C1: flush_dirty with a target above zero, on a cache whose one dirty VACB is
\* neither borrowed nor mapped, and whose file grants the lazy-write lock,
\* writes that VACB (once), after which it is clean, off the dirty list, the
\* total of dirty pages is 0 and the count reported is G / page_size
C1_FlushDirtyWritesTheOneDirtyVacb ==
    [][\A t \in Threads, v \in VacbIds :
         (/\ OneDirtyVacb(t, v)
          /\ loc'[t].op = "flush_dirty"
          /\ ~loc'[t].refused
          /\ halt'[1] = "run")
         => FlushDirtyWroteOnce(t, v)']_vars


LiveVacbs == {v \in VacbIds : vacb[v].state = "live"}
LiveMaps == {m \in MapIds : maps[m].state = "live"}
DirtyVacbs == {v \in LiveVacbs : vacb[v].Dirty}

RECURSIVE SumDirtyPages(_)
SumDirtyPages(S) ==
    IF S = {} THEN 0
    ELSE LET m == Lowest(S) IN maps[m].DirtyPages + SumDirtyPages(S \ {m})

\* C2: the total of dirty pages is the sum of the maps' dirty pages and
\* G / page_size times the number of dirty VACBs, and a VACB is on the dirty
\* list, once, exactly when its dirty flag is set
C2_DirtyAccounting ==
    /\ CcTotalDirtyPages = SumDirtyPages(LiveMaps)
    /\ CcTotalDirtyPages = PagesPerVacb * Cardinality(DirtyVacbs)
    /\ \A v \in VacbIds :
         Count(v, DirtyVacbListHead) = IF v \in DirtyVacbs THEN 1 ELSE 0


\* The positions at which a thread has a reference of its own to loc.current
BorrowingAt ==
    {"release_mark", "fc_write", "fd_write", "fd_resume", "trim_pageout"}

\* The callers that hold VACB v between their lookup and the matching release
Borrowers(v) ==
    {t \in Threads : held[t] = v \/ (pc[t] \in BorrowingAt /\ loc[t].current = v)}

\* The references VACB v's places on lists stand for.  The per-map list and the
\* LRU list, which a VACB joins and leaves together, are counted as one (the
\* code keeps one reference for the two), the dirty list as another.
ListReferences(v) ==
    (IF InSeq(v, VacbLruListHead)
        \/ \E m \in MapIds : InSeq(v, maps[m].CacheMapVacbListHead)
     THEN 1 ELSE 0)
    + (IF InSeq(v, DirtyVacbListHead) THEN 1 ELSE 0)

\* C3: every VACB's ref_count is at least the number of lists it is linked on
\* plus the number of callers that hold it.  Stated here in the weakest form the
\* claim implies: the per-map list and the LRU list count as one membership.
C3_RefCountCoversListsAndBorrowers ==
    \A v \in VacbIds :
        vacb[v].ReferenceCount >= ListReferences(v) + Cardinality(Borrowers(v))


\* How a step ends that destroys a VACB it must not destroy: one that is gone
\* already, or pinned, referenced, dirty, or linked on a list
DestroyFaults ==
    {"VACB freed twice",
     "ASSERT(Vacb->PinCount == 0)",
     "ASSERT(Vacb->ReferenceCount == 0)",
     "ASSERT(IsListEmpty(&Vacb->CacheMapVacbListEntry))",
     "ASSERT(IsListEmpty(&Vacb->DirtyVacbListEntry))",
     "ASSERT(IsListEmpty(&Vacb->VacbLruListEntry))",
     "ASSERT(!(Refs == 0 && vacb->Dirty))"}

OnSomeList(v) ==
    \/ InSeq(v, DirtyVacbListHead)
    \/ InSeq(v, VacbLruListHead)
    \/ \E m \in MapIds : InSeq(v, maps[m].CacheMapVacbListHead)

\* C4: a VACB is destroyed once, by the decrement that takes its ref_count to 0
\* and by nothing else, and it is then clean, unmapped, unpinned and on no list:
\* no step destroys a VACB otherwise, a live VACB has references, and a body
\* that was freed is on no list
C4_DestroyedOnceAtZero ==
    /\ halt[2] \notin DestroyFaults
    /\ \A v \in VacbIds : vacb[v].state = "live" => vacb[v].ReferenceCount > 0
    /\ \A v \in VacbIds : vacb[v].state = "free" => ~OnSomeList(v)


OnMapList(v) == \E m \in MapIds : InSeq(v, maps[m].CacheMapVacbListHead)
Holders(v) == {t \in Threads : held[t] = v}
SameWindow(v, w) ==
    /\ vacb[v].SharedCacheMap = vacb[w].SharedCacheMap
    /\ vacb[v].FileOffset = vacb[w].FileOffset

\* C5: when threads request the same aligned offset of a map that has no VACB
\* for it, one VACB for the offset is on the per-map list and on the LRU list
\* (once each), the VACB a thread built in vain is gone once its call is over,
\* the callers hold the same VACB with the same base address, and that VACB's
\* ref_count has one reference for each of them beside the lists'
C5_CreationRaceInstallsOneVacb ==
    /\ \A m \in MapIds :
         LET L == maps[m].CacheMapVacbListHead
         IN  \A i, j \in 1..Len(L) :
               i # j => L[i] # L[j] /\ vacb[L[i]].FileOffset # vacb[L[j]].FileOffset
    /\ \A v \in VacbIds :
         Count(v, VacbLruListHead) = IF OnMapList(v) THEN 1 ELSE 0
    /\ \A v \in LiveVacbs :
         OnMapList(v) \/ \E t \in Threads : pc[t] = "create_insert" /\ loc[t].current = v
    /\ \A t, u \in Threads :
         (held[t] \in VacbIds /\ held[u] \in VacbIds /\ SameWindow(held[t], held[u]))
         => /\ held[t] = held[u]
            /\ vacb[held[t]].BaseAddress = vacb[held[u]].BaseAddress
            /\ vacb[held[t]].BaseAddress # NULL
    /\ \A v \in VacbIds :
         Holders(v) # {} =>
           /\ vacb[v].state = "live" /\ OnMapList(v)
           /\ vacb[v].ReferenceCount >= 1 + Cardinality(Holders(v))

\* Both threads hold the VACB of a window that came from a spare body: it was
\* built while another thread was building one for the same window, it was the
\* one installed, and the other thread's, built in the window's own body, is gone
C5_BothHoldTheRaceWinner ==
    \E v \in VacbIds :
        /\ v > MaxMaps * MaxWindows
        /\ \A t \in Threads : held[t] = v
        /\ vacb[v].ReferenceCount = 1 + NumThreads
        /\ vacb[AllocateVacb(Now, vacb[v].SharedCacheMap, vacb[v].FileOffset)].state = "free"
        /\ AllocateVacb(Now, vacb[v].SharedCacheMap, vacb[v].FileOffset) <= MaxMaps * MaxWindows


\* The threads whose write_region call for VACB v is under way
Writers(v) ==
    {t \in Threads : pc[t] \in {"fc_write", "fd_write"} /\ loc[t].current = v}

\* C6: at most one write_region call is under way for a VACB at any moment,
\* whichever of flush_dirty and flush_cache the callers are in, and so a VACB
\* goes from dirty to clean once for each write (no write ends on a VACB that
\* another write has made clean already)
C6_OneWritebackPerVacb ==
    /\ \A v \in VacbIds : Cardinality(Writers(v)) <= 1
    /\ halt[2] # "ASSERT(Vacb->Dirty)"


\* The writes of a flush_cache call that did not succeed, in the order made
Failures(written) == SelectSeq(written, LAMBDA w : ~NT_SUCCESS(w[2]))

\* Thread t's flush_cache call is over
FlushCacheDone(t) == pc[t] = "done" /\ loc[t].op = "flush_cache"

\* The call went through its whole range, in increasing offsets, and every VACB
\* of the range that is dirty now is one whose write it made, in vain
VisitedAll(t) ==
    LET l == loc[t]
        W == l.written
        first == IF l.range[1] THEN l.range[2] ELSE 0
        last == first + (IF l.range[1] THEN l.range[3] ELSE SectionSize)
    IN  /\ l.RemainingLength = 0
        /\ l.Offset >= last
        /\ \A i, j \in 1..Len(W) : i < j => W[i][1] < W[j][1]
        /\ \A v \in DirtyVacbs :
             (/\ vacb[v].SharedCacheMap = l.map
              /\ vacb[v].FileOffset >= first /\ vacb[v].FileOffset < last)
             => \E i \in 1..Len(W) : W[i][1] = vacb[v].FileOffset /\ ~NT_SUCCESS(W[i][2])

\* C7 as claimed: flush_cache reports the status of the first VACB, in
\* increasing offsets, whose write did not succeed, success only if every write
\* succeeded, and goes on to the VACBs after one whose write failed
C7_FlushCacheReportsFirstFailure ==
    \A t \in Threads :
        FlushCacheDone(t) =>
            LET F == Failures(loc[t].written)
            IN  /\ loc[t].IoStatus = IF F = <<>> THEN "STATUS_SUCCESS" ELSE F[1][2]
                /\ VisitedAll(t)

\* C7 as amended: flush_cache reports the status of the last VACB, in
\* increasing offsets, whose write did not succeed, success only if every write
\* succeeded, and goes on to the VACBs after one whose write failed
C7_FlushCacheReportsLastFailure ==
    \A t \in Threads :
        FlushCacheDone(t) =>
            LET F == Failures(loc[t].written)
            IN  /\ loc[t].IoStatus = IF F = <<>> THEN "STATUS_SUCCESS" ELSE F[Len(F)][2]
                /\ VisitedAll(t)

\* A flush_cache call is over whose writes of two VACBs failed, each with a
\* status of its own, and it went on to a VACB after the first failure
C7_TwoFailuresOfDifferentStatus ==
    \E t \in Threads :
        /\ FlushCacheDone(t)
        /\ LET F == Failures(loc[t].written)
           IN  Len(F) >= 2 /\ F[1][2] # F[Len(F)][2] /\ F[1][1] < F[Len(F)][1]


\* Thread t's step is a whole call of mark_dirty, or of release_region with
\* dirty = true, on VACB v, which was dirty before the call
MarksDirtyAgain(t, v) ==
    /\ pc[t] = "idle" /\ pc'[t] = "done"
    /\ loc'[t].op \in {"mark_dirty", "release_region"}
    /\ loc'[t].Dirty
    /\ loc'[t].current = v
    /\ vacb[v].state = "live" /\ vacb[v].Dirty

\* C8: a mark_dirty, or a release_region with dirty = true, of a VACB that is
\* dirty already leaves the total of dirty pages, the map's dirty pages, the
\* dirty list and the VACB's place on it as they were, and takes no reference
\* for the mark: ref_count changes only by the reference the caller of
\* release_region gives back, and by the one a first mapping takes
C8_MarkDirtyIsIdempotent ==
    [][\A t \in Threads, v \in VacbIds :
         MarksDirtyAgain(t, v) =>
           /\ CcTotalDirtyPages' = CcTotalDirtyPages
           /\ \A m \in MapIds : maps'[m].DirtyPages = maps[m].DirtyPages
           /\ DirtyVacbListHead' = DirtyVacbListHead
           /\ vacb'[v].Dirty
           /\ vacb'[v].ReferenceCount =
                vacb[v].ReferenceCount
                - (IF held[t] = v THEN 1 ELSE 0)
                + (IF loc'[t].Mapped /\ vacb[v].MappedCount = 0 THEN 1 ELSE 0)]_vars

\* A mark_dirty call is over that found its VACB dirty already: the VACB is on
\* the dirty list once, and its pages are counted once
C8_MarkedDirtyTwice ==
    \E t \in Threads :
        /\ pc[t] = "done" /\ loc[t].op = "mark_dirty" /\ ~loc[t].marked
        /\ loc[t].current \in DirtyVacbs
        /\ Count(loc[t].current, DirtyVacbListHead) = 1
        /\ CcTotalDirtyPages = PagesPerVacb * Cardinality(DirtyVacbs)


\* C9: every VACB's file offset is a multiple of the mapping granularity, and
\* every map's VACB list is strictly increasing in file offset
C9_AlignedAndSorted ==
    /\ \A v \in LiveVacbs : vacb[v].FileOffset % VACB_MAPPING_GRANULARITY = 0
    /\ \A m \in LiveMaps :
         LET L == maps[m].CacheMapVacbListHead
         IN  \A i, j \in 1..Len(L) :
               i < j => vacb[L[i]].FileOffset < vacb[L[j]].FileOffset

\* A map's list holds the VACBs of two windows, the lower window's first, though
\* the higher window's VACB is the older of the two on the LRU list
C9_InsertedBeforeAnOlderVacb ==
    \E m \in LiveMaps :
        LET L == maps[m].CacheMapVacbListHead
        IN  /\ Len(L) = 2
            /\ vacb[L[1]].FileOffset < vacb[L[2]].FileOffset
            /\ VacbLruListHead = <<L[2], L[1]>>
            /\ \A t \in Threads : pc[t] = "idle" /\ held[t] = NULL


\* C10: a SharedCacheMap is torn down exactly when its open count is zero: no
\* step frees a map whose open count is above zero, and a map whose open count
\* is zero is in the hands of a thread that is tearing it down
C10_TornDownIffClosed ==
    [][/\ \A m \in MapIds :
            (maps[m].state = "live" /\ maps'[m].state = "free")
            => maps[m].OpenCount = 0
       /\ \A m \in MapIds :
            (maps'[m].state = "live" /\ maps'[m].OpenCount = 0)
            => \E t \in Threads : pc'[t] = "delete_free" /\ loc'[t].SharedCacheMap = m
      ]_vars

\* The VACB at the tail of the LRU list (NULL: the list is empty)
LruTail(s) == IF s = <<>> THEN NULL ELSE s[Len(s)]

\* The VACBs a step makes the most recently used: the one it creates, the one
\* request_region hands to its caller, the one that goes from clean to dirty
Created(t) == pc[t] = "create_insert" /\ pc'[t] = "create_ref"
Returned(t) == held[t] = NULL /\ held'[t] \in VacbIds
Dirtied(v) == vacb[v].state = "live" /\ ~vacb[v].Dirty /\ vacb'[v].Dirty
Touched ==
    {loc'[t].current : t \in {u \in Threads : Created(u)}}
        \cup {held'[t] : t \in {u \in Threads : Returned(u)}}
        \cup {v \in VacbIds : Dirtied(v)}

\* x is before y on list s
Before(x, y, s) == InSeq(x, s) /\ InSeq(y, s) /\ IndexOf(x, s) < IndexOf(y, s)

\* Nobody but the lists has a reference to v, and v is neither dirty nor mapped
Evictable(v) ==
    /\ vacb[v].state = "live" /\ vacb[v].ReferenceCount = 1
    /\ ~vacb[v].Dirty /\ vacb[v].MappedCount = 0

\* The VACBs thread t's trim_cache stages in the step, in the order it does
StagedNow(t) ==
    IF loc'[t].op = "trim_cache" /\ Len(loc'[t].staged) > Len(loc[t].staged)
    THEN SubSeq(loc'[t].staged, Len(loc[t].staged) + 1, Len(loc'[t].staged))
    ELSE <<>>

\* C11: a VACB is at the tail of the LRU list when a step creates it, hands it
\* to the caller of request_region or takes it from clean to dirty; no step
\* changes the order of the other VACBs, brings one onto the list otherwise, or
\* has one on the list twice; a walk of trim_cache stages VACBs in the
\* order of the list, and one that starts at the head leaves no evictable VACB
\* behind that is before one it stages
C11_LruDiscipline ==
    [][  /\ \A v \in Touched : LruTail(VacbLruListHead') = v
         /\ \A x \in VacbIds :
              InSeq(x, VacbLruListHead') =>
                 /\ Count(x, VacbLruListHead') = 1
                 /\ InSeq(x, VacbLruListHead) \/ x \in Touched
         /\ \A x, y \in VacbIds \ Touched :
              (Before(x, y, VacbLruListHead) /\ InSeq(x, VacbLruListHead')
                 /\ InSeq(y, VacbLruListHead'))
              => Before(x, y, VacbLruListHead')
         /\ \A t \in Threads :
              LET S == StagedNow(t)
              IN  /\ \A i, j \in 1..Len(S) :
                        i < j => Before(S[i], S[j], VacbLruListHead)
                  /\ \A i \in 1..Len(S) : ~InSeq(S[i], VacbLruListHead')
                  /\ pc[t] = "idle" =>
                        \A x \in VacbIds, i \in 1..Len(S) :
                            (Evictable(x) /\ Before(x, S[i], VacbLruListHead))
                            => InSeq(x, S)
    ]_vars


\* handles the callers get from alloc, at most, in a run
MaxHandles == 3
\* bodies a thread holds exclusively at a time, each counted as often as held
MaxDepth == 2

\* ------------------------------------------------------------ gdiobj.c: steps
\* The table's state as one value; a step computes the next one and GdiCommit
\* writes it.  fault names an ASSERT of the step that does not hold, or an
\* access the step makes to a body that has been freed.
GNow ==
    [Entries |-> Entries, FirstFree |-> FirstFree, FirstUnused |-> FirstUnused,
     Objects |-> Objects, GDIHandleCount |-> GDIHandleCount, gpc |-> gpc,
     gloc |-> gloc, locked |-> locked, shared |-> shared, minted |-> minted,
     destroyed |-> destroyed, fault |-> ""]

GdiWrite(g) ==
    /\ Entries' = g.Entries
    /\ FirstFree' = g.FirstFree
    /\ FirstUnused' = g.FirstUnused
    /\ Objects' = g.Objects
    /\ GDIHandleCount' = g.GDIHandleCount
    /\ gpc' = g.gpc
    /\ gloc' = g.gloc
    /\ locked' = g.locked
    /\ shared' = g.shared
    /\ minted' = g.minted
    /\ destroyed' = g.destroyed

GdiCommit(g) ==
    /\ UNCHANGED <<viewVars, lockVars>>
    /\ IF g.fault = ""
       THEN GdiWrite(g) /\ UNCHANGED halt
       ELSE \/ halt' = <<"bugcheck", g.fault>> /\ UNCHANGED gdiVars
            \/ halt' = <<"corrupt", g.fault>> /\ GdiWrite(g)

GdiIdle(t) == Running /\ gpc[t] = "idle"
At(t, p) == Running /\ gpc[t] = p
Fault(g, why) == IF g.fault = "" THEN [g EXCEPT !.fault = why] ELSE g
\* a function returns: its result waits for the caller
Result(g, t, r) == [g EXCEPT !.gpc[t] = "done", !.gloc[t].result = r]

\* A body is read or written: it must not have gone back to the pool
Touch(g, b) ==
    IF b \in BodyIds /\ g.Objects[b].state = "used" THEN g
    ELSE Fault(g, "use of a freed body")

\* ExAllocatePoolWithTag: the lowest free body, or NULL
PoolAlloc(g) ==
    LET free == {b \in BodyIds : g.Objects[b].state = "free"}
    IN  IF free = {} THEN NULL ELSE CHOOSE b \in free : \A c \in free : b <= c

\* GDIOBJ_FreeObj
GDIOBJ_FreeObj(g, b) ==
    LET g1 == IF g.Objects[b].hHmgr # NoHandle
              THEN Fault(g, "ASSERT(PBASEOBJECTect->hHmgr == NULL)") ELSE g
    IN  [g1 EXCEPT !.Objects[b] = FreeBody]

ValidateHandleLockBitKept(E, hObj, ObjectType, pid) ==
    LET Entry == E[GDI_HANDLE_GET_INDEX(hObj)]
    IN  /\ GDI_HANDLE_GET_TYPE(hObj) = ObjectType
        /\ EntryUpper(Entry.Type) = GDI_HANDLE_GET_UPPER(hObj)
        /\ Entry.ProcessId \in {0, pid}
\* GDIOBJ_ValidateHandle, for a caller of process pid
GDIOBJ_ValidateHandle(E, hObj, ObjectType, pid) ==
    LET Entry == E[GDI_HANDLE_GET_INDEX(hObj)]
    IN  /\ GDI_HANDLE_GET_TYPE(hObj) = ObjectType
        /\ EntryUpper(Entry.Type) = GDI_HANDLE_GET_UPPER(hObj)
        /\ WithoutLock(Entry.ProcessId) \in {0, pid}

\* The type check of the functions that take a handle and an expected type
TypeRejected(hObj, ExpectedType) ==
    \/ ExpectedType # GDI_OBJECT_TYPE_DONTCARE /\ GDI_HANDLE_GET_TYPE(hObj) # ExpectedType
    \/ GDI_HANDLE_GET_TYPE(hObj) = 0

\* Entry->KernelData != NULL && (Entry->Type << GDI_ENTRY_UPPER_SHIFT) == HandleUpper
EntryMatches(Entry, hObj) ==
    /\ Entry.KernelData # NullData
    /\ EntryUpper(Entry.Type) = GDI_HANDLE_GET_UPPER(hObj)

\* Entry->KernelData read as a body: an index read so is a wild pointer
BodyOf(g, Entry) == IF IsBody(Entry.KernelData) THEN Entry.KernelData[2] ELSE DANGLING

\* ---- GDIOBJ_AllocObjWithHandle
\* The body is allocated and zeroed (GDIOBJ_AllocObj); the quota of 0x2710
\* handles is out of the table's reach
GDIOBJ_AllocObjWithHandle(t, ObjectType) ==
    /\ GdiIdle(t)
    /\ LET newObject == PoolAlloc(GNow)
           l == [NoGLoc EXCEPT !.op = "alloc", !.ObjectType = ObjectType,
                               !.newObject = newObject]
       IN  GdiCommit(
             IF newObject = NULL
             THEN Result([GNow EXCEPT !.gloc[t] = l], t, NULL)
             ELSE [GNow EXCEPT !.gloc[t] = l, !.gpc[t] = "pop",
                    !.Objects[newObject] =
                        [FreeBody EXCEPT !.state = "used",
                            !.BaseType = GDI_OBJECT_GET_TYPE_INDEX(ObjectType)]])

\* InterlockedPopFreeEntry, the head of its loop: FirstFree is read, and
\* FirstUnused taken when the list is empty (a FirstUnused past the table's
\* end stays where it is: every such value is refused alike)
PopFreeEntry_Read(t) ==
    /\ At(t, "pop")
    /\ LET g == GNow
           idxFirst == IF FirstFree = 0 THEN FirstUnused ELSE FirstFree
       IN  GdiCommit(
             IF FirstFree # 0
             THEN [g EXCEPT !.gloc[t].idxFirst = idxFirst, !.gpc[t] = "pop_lock"]
             ELSE IF idxFirst >= GDI_HANDLE_COUNT
             THEN \* no entry left: GDIOBJ_FreeObj(newObject), return NULL
                  Result(GDIOBJ_FreeObj(g, gloc[t].newObject), t, NULL)
             ELSE [g EXCEPT !.FirstUnused = idxFirst + 1, !.gloc[t].Index = idxFirst,
                            !.gpc[t] = "alloc_lock"])

\* InterlockedPopFreeEntry, lines 284 to 297: the free entry is locked, with 1,
\* checked, and its link read
PopFreeEntry_Lock(t) ==
    /\ At(t, "pop_lock")
    /\ LET idxFirst == gloc[t].idxFirst
           pEntry == Entries[idxFirst]
           g1 == [GNow EXCEPT !.Entries[idxFirst].ProcessId = 1]
           g2 == IF IsBody(pEntry.KernelData)
                 THEN Fault(g1, "ASSERT(KernelData is an index)") ELSE g1
           idxNext == IF IsBody(pEntry.KernelData) THEN 0 ELSE pEntry.KernelData[2]
       IN  GdiCommit(
             IF pEntry.ProcessId # 0
             THEN [GNow EXCEPT !.gpc[t] = "pop"]
             ELSE [g2 EXCEPT !.gloc[t].idxNext = idxNext, !.gpc[t] = "pop_swap"])

\* InterlockedPopFreeEntry, lines 298 to 310: FirstFree is exchanged for the
\* link read, the entry is unlocked, and the loop is left if the exchange was
\* made
PopFreeEntry_Swap(t) ==
    /\ At(t, "pop_swap")
    /\ LET idxFirst == gloc[t].idxFirst
           g == [GNow EXCEPT !.Entries[idxFirst].ProcessId = 0]
       IN  GdiCommit(
             IF FirstFree = idxFirst
             THEN [g EXCEPT !.FirstFree = gloc[t].idxNext, !.gloc[t].Index = idxFirst,
                            !.gpc[t] = "alloc_lock"]
             ELSE [g EXCEPT !.gpc[t] = "pop"])

\* LockHandle: the popped entry is locked for the process (the loop waits while
\* somebody holds the entry)
AllocObjWithHandle_Lock(t) ==
    /\ At(t, "alloc_lock")
    /\ Entries[gloc[t].Index].ProcessId = 0
    /\ GdiCommit([GNow EXCEPT !.Entries[gloc[t].Index].ProcessId = WithLock(ProcessOf(t)),
                              !.gpc[t] = "alloc_locked"])

AllocPublishWithoutReuseBits(t) ==
    /\ At(t, "alloc_locked")
    /\ LET g == GNow
           Index == gloc[t].Index
           ObjectType == gloc[t].ObjectType
           newObject == gloc[t].newObject
           TypeInfo == GDI_OBJECT_GET_TYPE_INDEX(ObjectType) * TwoTo16 + ObjectType
           Handle == MakeHandle(Index, TypeInfo)
       IN  GdiCommit(
             [g EXCEPT !.Entries[Index] = [ProcessId |-> ProcessOf(t), Type |-> TypeInfo,
                                           KernelData |-> PointerTo(newObject)],
                       !.Objects[newObject].hHmgr = Handle,
                       !.Objects[newObject].ulShareCount = 0,
                       !.Objects[newObject].cExclusiveLock = 1,
                       !.Objects[newObject].Tid = t,
                       !.gloc[t].hObj = Handle,
                       !.gpc[t] = "alloc_count"])
\* The locked entry is filled in, the body initialised, the entry unlocked
AllocObjWithHandle_Publish(t) ==
    /\ At(t, "alloc_locked")
    /\ LET g == GNow
           Index == gloc[t].Index
           Entry == Entries[Index]
           ObjectType == gloc[t].ObjectType
           newObject == gloc[t].newObject
           TypeInfo == GDI_OBJECT_GET_TYPE_INDEX(ObjectType) * TwoTo16 + ObjectType
                       + EntryReuseBits(Entry.Type)
           Handle == MakeHandle(Index, TypeInfo)
       IN  GdiCommit(
             [g EXCEPT !.Entries[Index] = [ProcessId |-> ProcessOf(t), Type |-> TypeInfo,
                                           KernelData |-> PointerTo(newObject)],
                       !.Objects[newObject].hHmgr = Handle,
                       !.Objects[newObject].ulShareCount = 0,
                       !.Objects[newObject].cExclusiveLock = 1,
                       !.Objects[newObject].Tid = t,
                       !.gloc[t].hObj = Handle,
                       !.gpc[t] = "alloc_count"])

\* InterlockedIncrement(&W32Process->GDIHandleCount); return newObject
AllocObjWithHandle_Count(t) ==
    /\ At(t, "alloc_count")
    /\ GdiCommit(Result([GNow EXCEPT !.GDIHandleCount[ProcessOf(t)] = @ + 1],
                        t, gloc[t].newObject))

\* ---- GDIOBJ_FreeObjByHandle
\* GDIOBJ_FreeObjByHandle returns Ret, to its caller or into the function that
\* called it (cont)
FreeRet(g, t, Ret) ==
    IF g.gloc[t].cont = "" THEN Result(g, t, Ret)
    ELSE [g EXCEPT !.gpc[t] = g.gloc[t].cont, !.gloc[t].Ret = Ret]

\* The checks made on the handle alone
FreeObjByHandle_Call(g, t, hObj, ExpectedType) ==
    LET g1 == [g EXCEPT !.gloc[t].hObj = hObj, !.gloc[t].ExpectedType = ExpectedType]
    IN  IF GDI_HANDLE_IS_STOCKOBJ(hObj) \/ TypeRejected(hObj, ExpectedType)
        THEN FreeRet(g1, t, FALSE)
        ELSE [g1 EXCEPT !.gpc[t] = "free_lock"]

GDIOBJ_FreeObjByHandle(t, hObj, ExpectedType) ==
    /\ GdiIdle(t)
    /\ GdiCommit(FreeObjByHandle_Call([GNow EXCEPT !.gloc[t].op = "free"], t, hObj,
                                      ExpectedType))

FreedTypeSameCounter(Type) == ClearBaseType(Type)
\* Entry->Type = (Entry->Type + GDI_ENTRY_REUSE_INC) & ~GDI_ENTRY_BASETYPE_MASK
FreedType(Type) == ClearBaseType(Type + GDI_ENTRY_REUSE_INC)

\* LockHandle: the entry is locked if the process owns it and nobody holds it
\* (the loop waits while somebody of the process does)
FreeObjByHandle_Lock(t) ==
    /\ At(t, "free_lock")
    /\ LET Index == GDI_HANDLE_GET_INDEX(gloc[t].hObj)
           PrevProcId == Entries[Index].ProcessId
       IN  /\ PrevProcId # WithLock(ProcessOf(t))
           /\ GdiCommit(
                IF PrevProcId = ProcessOf(t)
                THEN [GNow EXCEPT !.Entries[Index].ProcessId = WithLock(ProcessOf(t)),
                                  !.gloc[t].PrevProcId = PrevProcId,
                                  !.gpc[t] = "free_locked"]
                ELSE FreeRet(GNow, t, FALSE))

FreeLockedWithoutCompare(t) ==
    /\ At(t, "free_locked")
    /\ LET g == GNow
           hObj == gloc[t].hObj
           Index == GDI_HANDLE_GET_INDEX(hObj)
           Entry == Entries[Index]
           PrevProcId == gloc[t].PrevProcId
           Object == BodyOf(g, Entry)
           Unlocked == [g EXCEPT !.Entries[Index].ProcessId = PrevProcId]
       IN  GdiCommit(
             IF ~ IsBody(Entry.KernelData)
             THEN FreeRet(Unlocked, t, FALSE)
             ELSE IF Touch(g, Object).fault # "" THEN FreeRet(Touch(Unlocked, Object), t, FALSE)
             ELSE IF /\ Objects[Object].cExclusiveLock = 0 \/ Objects[Object].Tid = t
                     /\ Objects[Object].ulShareCount = 0
             THEN [g EXCEPT !.Entries[Index].Type = FreedType(Entry.Type),
                            !.Entries[Index].ProcessId = 0,
                            !.gloc[t].Object = Object,
                            !.gpc[t] = "free_push"]
             ELSE IF Objects[Object].ulShareCount # 0
             THEN FreeRet([Unlocked EXCEPT !.Objects[Object].ReadyToDie = TRUE], t, FALSE)
             ELSE [Unlocked EXCEPT !.gpc[t] = "free_lock"])
FreeLockedWithoutReadyToDie(t) ==
    /\ At(t, "free_locked")
    /\ LET g == GNow
           hObj == gloc[t].hObj
           Index == GDI_HANDLE_GET_INDEX(hObj)
           Entry == Entries[Index]
           PrevProcId == gloc[t].PrevProcId
           Object == BodyOf(g, Entry)
           Unlocked == [g EXCEPT !.Entries[Index].ProcessId = PrevProcId]
       IN  GdiCommit(
             IF ~ (/\ EntryMatches(Entry, hObj)
                   /\ EntryBaseType(Entry.Type) = GDI_HANDLE_GET_UPPER(hObj) % 32)
             THEN FreeRet(Unlocked, t, FALSE)
             ELSE IF Touch(g, Object).fault # "" THEN FreeRet(Touch(Unlocked, Object), t, FALSE)
             ELSE IF /\ Objects[Object].cExclusiveLock = 0 \/ Objects[Object].Tid = t
                     /\ Objects[Object].ulShareCount = 0
             THEN [g EXCEPT !.Entries[Index].Type = FreedType(Entry.Type),
                            !.Entries[Index].ProcessId = 0,
                            !.gloc[t].Object = Object,
                            !.gpc[t] = "free_push"]
             ELSE IF Objects[Object].ulShareCount # 0
             THEN FreeRet(Unlocked, t, FALSE)
             ELSE [Unlocked EXCEPT !.gpc[t] = "free_lock"])
\* The locked entry is looked at: it is given up for the free list, its body
\* marked ready to die, the attempt repeated because another thread holds the
\* body, or the handle refused
FreeObjByHandle_Locked(t) ==
    /\ At(t, "free_locked")
    /\ LET g == GNow
           hObj == gloc[t].hObj
           Index == GDI_HANDLE_GET_INDEX(hObj)
           Entry == Entries[Index]
           PrevProcId == gloc[t].PrevProcId
           Object == BodyOf(g, Entry)
           Unlocked == [g EXCEPT !.Entries[Index].ProcessId = PrevProcId]
       IN  GdiCommit(
             IF ~ (/\ EntryMatches(Entry, hObj)
                   /\ EntryBaseType(Entry.Type) = GDI_HANDLE_GET_UPPER(hObj) % 32)
             THEN FreeRet(Unlocked, t, FALSE)
             ELSE IF Touch(g, Object).fault # "" THEN FreeRet(Touch(Unlocked, Object), t, FALSE)
             ELSE IF /\ Objects[Object].cExclusiveLock = 0 \/ Objects[Object].Tid = t
                     /\ Objects[Object].ulShareCount = 0
             THEN [g EXCEPT !.Entries[Index].Type = FreedType(Entry.Type),
                            !.Entries[Index].ProcessId = 0,
                            !.gloc[t].Object = Object,
                            !.gpc[t] = "free_push"]
             ELSE IF Objects[Object].ulShareCount # 0
             THEN FreeRet([Unlocked EXCEPT !.Objects[Object].ReadyToDie = TRUE], t, FALSE)
             ELSE [Unlocked EXCEPT !.gpc[t] = "free_lock"])

\* InterlockedPushFreeEntry takes no lock: it writes the link into the entry
\* it pushes (line 334) and exchanges FirstFree afterwards (336), and does both
\* again when the exchange fails.
\* The link it writes: the FirstFree it read
PushLink(g, t, idxToFree) ==
    [g EXCEPT !.Entries[idxToFree].KernelData = IndexOfNext(g.FirstFree),
              !.gloc[t].idxFirstFree = g.FirstFree,
              !.gpc[t] = "push_cas"]

\* InterlockedPushFreeEntry, lines 333 and 334, with the assertions of 327
\* and 328 when the function is entered
PushFreeEntry_Link(t) ==
    /\ Running /\ gpc[t] \in {"free_push", "push_again"}
    /\ LET idxToFree == GDI_HANDLE_GET_INDEX(gloc[t].hObj)
           pFreeEntry == Entries[idxToFree]
           g1 == IF gpc[t] = "free_push" /\ EntryBaseType(pFreeEntry.Type) # 0
                 THEN Fault(GNow,
                            "ASSERT((pFreeEntry->Type & GDI_ENTRY_BASETYPE_MASK) == 0)")
                 ELSE GNow
           g2 == IF gpc[t] = "free_push" /\ pFreeEntry.ProcessId # 0
                 THEN Fault(g1, "ASSERT(pFreeEntry->ProcessId == 0)") ELSE g1
       IN  GdiCommit(PushLink(g2, t, idxToFree))

\* Lines 336 to 340: FirstFree is exchanged for the entry if it is still what
\* was read
PushFreeEntry_Exchange(t) ==
    /\ At(t, "push_cas")
    /\ GdiCommit(
         IF FirstFree = gloc[t].idxFirstFree
         THEN [GNow EXCEPT !.FirstFree = GDI_HANDLE_GET_INDEX(gloc[t].hObj),
                           !.gpc[t] = "free_cleanup"]
         ELSE [GNow EXCEPT !.gpc[t] = "push_again"])

\* GDIOBJ_FreeObjByHandle's call of InterlockedPushFreeEntry, one access of
\* the table at a time
FreeObjByHandle_Push(t) ==
    \/ PushFreeEntry_Link(t)
    \/ PushFreeEntry_Exchange(t)

\* where GDIOBJ_FreeObjByHandle is once it has given the entry up
GivenUp == {"free_push", "push_cas", "push_again", "free_cleanup"}

\* GDI_CleanupDummy returns TRUE; what DC_Cleanup, SURFACE_Cleanup and
\* BRUSH_Cleanup return is theirs to say
CleanupProc(BaseType) ==
    IF BaseType = GDI_OBJECT_GET_TYPE_INDEX(GDI_OBJECT_TYPE_PALETTE) THEN {TRUE} ELSE BOOLEAN

\* The body loses its handle, the process its count, the cleanup routine of
\* the type runs and the body goes back to the pool.  The caller's holds of
\* the body end with it.
FreeObjByHandle_Cleanup(t) ==
    /\ At(t, "free_cleanup")
    /\ \E Ret \in CleanupProc(GDI_OBJECT_GET_TYPE_INDEX(GDI_HANDLE_GET_TYPE(gloc[t].hObj))) :
         LET g == GNow
             Object == gloc[t].Object
             g1 == Touch(g, Object)
             g2 == [g1 EXCEPT !.Objects[Object].hHmgr = NoHandle,
                              !.GDIHandleCount[ProcessOf(t)] = @ - 1,
                              !.destroyed = Append(@, [hHmgr |-> g.Objects[Object].hHmgr,
                                                       pass |-> gloc[t].pass]),
                              !.locked[t][Object] = 0,
                              !.shared[t][Object] = 0]
         IN  GdiCommit(FreeRet(GDIOBJ_FreeObj(g2, Object), t, Ret))

\* GDIOBJ_ValidateHandle, called
ValidateHandle(t, hObj, ObjectType) ==
    /\ GdiIdle(t)
    /\ GdiCommit(Result([GNow EXCEPT !.gloc[t] = [NoGLoc EXCEPT !.op = "validate",
                                                  !.hObj = hObj,
                                                  !.ExpectedType = ObjectType]],
                        t, GDIOBJ_ValidateHandle(Entries, hObj, ObjectType, ProcessOf(t))))

\* The caller has its result: what alloc and the locks returned it holds from
\* now on, and the handle alloc made, or convert_to_stock, it knows
GdiReturn(t) ==
    /\ At(t, "done")
    /\ LET l == gloc[t]
           g == GNow
           b == l.result
           g1 == IF l.op \in {"alloc", "lock"} /\ b # NULL
                 THEN [g EXCEPT !.locked[t][b] = @ + 1]
                 ELSE IF l.op = "share_lock" /\ b # NULL
                 THEN [g EXCEPT !.shared[t][b] = @ + 1]
                 ELSE g
           g2 == IF (l.op = "alloc" /\ b # NULL) \/ (l.op = "stock" /\ b)
                 THEN [g1 EXCEPT !.minted = @ \cup {l.hObj}] ELSE g1
       IN  GdiCommit([g2 EXCEPT !.gpc[t] = "idle", !.gloc[t] = NoGLoc])

\* ---- GDIOBJ_LockObj
\* The checks made before the loop; the entry's owner is read once.  (Every
\* handle the callers have carries an index inside the table.)
GDIOBJ_LockObj(t, hObj, ExpectedType) ==
    /\ GdiIdle(t)
    /\ LET Entry == Entries[GDI_HANDLE_GET_INDEX(hObj)]
           HandleProcessId == WithoutLock(Entry.ProcessId)
           g == [GNow EXCEPT !.gloc[t] = [NoGLoc EXCEPT !.op = "lock", !.hObj = hObj,
                                            !.ExpectedType = ExpectedType,
                                            !.HandleProcessId = HandleProcessId]]
       IN  GdiCommit(
             IF \/ TypeRejected(hObj, ExpectedType)
                \/ ProcessOf(t) # HandleProcessId /\ HandleProcessId # 0
             THEN Result(g, t, NULL)
             ELSE [g EXCEPT !.gpc[t] = "lock_cas"])

\* The head of the loop: the entry is locked for the owner read before (the
\* loop waits while the entry holds anything else)
LockObj_Lock(t) ==
    /\ At(t, "lock_cas")
    /\ LET Index == GDI_HANDLE_GET_INDEX(gloc[t].hObj)
       IN  /\ Entries[Index].ProcessId = gloc[t].HandleProcessId
           /\ GdiCommit([GNow EXCEPT
                  !.Entries[Index].ProcessId = WithLock(gloc[t].HandleProcessId),
                  !.gpc[t] = "lock_locked"])

\* The locked entry is looked at and unlocked: the body is taken, taken once
\* more, or held by another thread, and then the loop goes round again with
\* Object left as it is
LockObj_Locked(t) ==
    /\ At(t, "lock_locked")
    /\ LET g == GNow
           hObj == gloc[t].hObj
           Index == GDI_HANDLE_GET_INDEX(hObj)
           Entry == Entries[Index]
           Object == BodyOf(g, Entry)
           Unlocked == [g EXCEPT !.Entries[Index].ProcessId = gloc[t].HandleProcessId]
       IN  GdiCommit(
             IF ~ EntryMatches(Entry, hObj)
             THEN Result(Unlocked, t, gloc[t].Object)
             ELSE IF Touch(g, Object).fault # ""
             THEN Result(Touch(Unlocked, Object), t, Object)
             ELSE IF Objects[Object].cExclusiveLock = 0
             THEN Result([Unlocked EXCEPT !.Objects[Object].Tid = t,
                                          !.Objects[Object].cExclusiveLock = 1],
                         t, Object)
             ELSE IF Objects[Object].Tid # t
             THEN [Unlocked EXCEPT !.gloc[t].Object = Object, !.gpc[t] = "lock_cas"]
             ELSE Result([Unlocked EXCEPT !.Objects[Object].cExclusiveLock = @ + 1],
                         t, Object))

\* GDIOBJ_UnlockObjByPtr, on a body the thread holds
GDIOBJ_UnlockObjByPtr(t, Object) ==
    /\ GdiIdle(t)
    /\ locked[t][Object] > 0
    /\ LET g == Touch(GNow, Object)
           cLocks == Objects[Object].cExclusiveLock - 1
           g1 == IF cLocks < 0 THEN Fault(g, "ASSERT(cLocks >= 0)") ELSE g
       IN  GdiCommit([g1 EXCEPT !.Objects[Object].cExclusiveLock = cLocks,
                                !.locked[t][Object] = @ - 1])

\* ---- GDIOBJ_ShareLockObj
GDIOBJ_ShareLockObj(t, hObj, ExpectedType) ==
    /\ GdiIdle(t)
    /\ LET Entry == Entries[GDI_HANDLE_GET_INDEX(hObj)]
           HandleProcessId == WithoutLock(Entry.ProcessId)
           g == [GNow EXCEPT !.gloc[t] = [NoGLoc EXCEPT !.op = "share_lock", !.hObj = hObj,
                                            !.ExpectedType = ExpectedType,
                                            !.HandleProcessId = HandleProcessId]]
       IN  GdiCommit(
             IF TypeRejected(hObj, ExpectedType)
             THEN Result(Fault(g, "ASSERT(FALSE)"), t, NULL)
             ELSE IF ProcessOf(t) # HandleProcessId /\ HandleProcessId # 0
             THEN Result(g, t, NULL)
             ELSE [g EXCEPT !.gpc[t] = "share_cas"])

ShareLockObj_Lock(t) ==
    /\ At(t, "share_cas")
    /\ LET Index == GDI_HANDLE_GET_INDEX(gloc[t].hObj)
       IN  /\ Entries[Index].ProcessId = gloc[t].HandleProcessId
           /\ GdiCommit([GNow EXCEPT
                  !.Entries[Index].ProcessId = WithLock(gloc[t].HandleProcessId),
                  !.gpc[t] = "share_locked"])

ShareLockObj_Locked(t) ==
    /\ At(t, "share_locked")
    /\ LET g == GNow
           hObj == gloc[t].hObj
           Index == GDI_HANDLE_GET_INDEX(hObj)
           Entry == Entries[Index]
           Object == BodyOf(g, Entry)
           Unlocked == [g EXCEPT !.Entries[Index].ProcessId = gloc[t].HandleProcessId]
       IN  GdiCommit(
             IF ~ EntryMatches(Entry, hObj) THEN Result(Unlocked, t, NULL)
             ELSE IF Touch(g, Object).fault # ""
             THEN Result(Touch(Unlocked, Object), t, Object)
             ELSE Result([Unlocked EXCEPT !.Objects[Object].ulShareCount = @ + 1],
                         t, Object))

\* share_unlock(body), on a body the thread holds: share_count is decremented;
\* at zero with ready_to_die set, the deferred free_by_handle is made
GDIOBJ_ShareUnlockObjByPtr(t, Object) ==
    /\ GdiIdle(t)
    /\ shared[t][Object] > 0
    /\ LET g == Touch(GNow, Object)
           cLocks == Objects[Object].ulShareCount - 1
           g1 == [g EXCEPT !.Objects[Object].ulShareCount = cLocks,
                           !.shared[t][Object] = @ - 1,
                           !.gloc[t].op = "share_unlock"]
       IN  GdiCommit(
             IF cLocks = 0 /\ Objects[Object].ReadyToDie
             THEN FreeObjByHandle_Call(g1, t, Objects[Object].hHmgr,
                                       GDI_OBJECT_TYPE_DONTCARE)
             ELSE Result(g1, t, cLocks))

\* ---- GDIOBJ_OwnedByCurrentProcess
GDIOBJ_OwnedByCurrentProcess(t, ObjectHandle) ==
    /\ GdiIdle(t)
    /\ LET Entry == Entries[GDI_HANDLE_GET_INDEX(ObjectHandle)]
           Ret == /\ ~ GDI_HANDLE_IS_STOCKOBJ(ObjectHandle)
                  /\ Entry.KernelData # NullData
                  /\ EntryBaseType(Entry.Type) # 0
                  /\ WithoutLock(Entry.ProcessId) = ProcessOf(t)
       IN  GdiCommit(Result([GNow EXCEPT !.gloc[t] = [NoGLoc EXCEPT !.op = "owned",
                                                      !.hObj = ObjectHandle]],
                            t, Ret))

\* ---- GDIOBJ_ConvertToStockObj
GDIOBJ_ConvertToStockObj(t, hObj) ==
    /\ GdiIdle(t)
    /\ LET g == [GNow EXCEPT !.gloc[t] = [NoGLoc EXCEPT !.op = "stock", !.hObj = hObj]]
       IN  GdiCommit(IF GDI_HANDLE_IS_STOCKOBJ(hObj) THEN Result(g, t, FALSE)
                     ELSE [g EXCEPT !.gpc[t] = "stock_lock"])

ConvertToStockLocksGlobal(t) ==
    /\ At(t, "stock_lock")
    /\ LET Index == GDI_HANDLE_GET_INDEX(gloc[t].hObj)
           PrevProcId == Entries[Index].ProcessId
       IN  /\ PrevProcId # WithLock(ProcessOf(t))
           /\ GdiCommit(
                IF PrevProcId \in {ProcessOf(t), GDI_GLOBAL_PROCESS}
                THEN [GNow EXCEPT !.Entries[Index].ProcessId = WithLock(ProcessOf(t)),
                                  !.gloc[t].PrevProcId = PrevProcId,
                                  !.gpc[t] = "stock_locked"]
                ELSE Result(GNow, t, FALSE))

\* LockHandle (the loop waits while somebody of the process holds the entry)
ConvertToStockObj_Lock(t) ==
    /\ At(t, "stock_lock")
    /\ LET Index == GDI_HANDLE_GET_INDEX(gloc[t].hObj)
           PrevProcId == Entries[Index].ProcessId
       IN  /\ PrevProcId # WithLock(ProcessOf(t))
           /\ GdiCommit(
                IF PrevProcId = ProcessOf(t)
                THEN [GNow EXCEPT !.Entries[Index].ProcessId = WithLock(ProcessOf(t)),
                                  !.gloc[t].PrevProcId = PrevProcId,
                                  !.gpc[t] = "stock_locked"]
                ELSE Result(GNow, t, FALSE))

ConvertToStockStoresType(t) ==
    /\ At(t, "stock_locked")
    /\ LET g == GNow
           hObj == gloc[t].hObj
           Index == GDI_HANDLE_GET_INDEX(hObj)
           Entry == Entries[Index]
           PrevProcId == gloc[t].PrevProcId
           OldType == (GDI_HANDLE_GET_UPPER(hObj) % 32) * TwoTo16 + GDI_HANDLE_GET_UPPER(hObj)
           NewType == OldType + GDI_ENTRY_STOCK_MASK
           g1 == [g EXCEPT !.Entries[Index].Type = NewType]
           Object == BodyOf(g, Entry)
           stock == [hObj EXCEPT !.upper = @ + GDI_ENTRY_STOCK_MASK]
       IN  GdiCommit(
             IF Entry.KernelData = NullData
             THEN Result(g1, t, FALSE)
             ELSE IF Touch(g, Object).fault # "" THEN Result(Touch(g1, Object), t, FALSE)
             ELSE IF Objects[Object].cExclusiveLock = 0 \/ Objects[Object].Tid = t
             THEN Result([g1 EXCEPT !.GDIHandleCount[WithoutLock(PrevProcId)] = @ - 1,
                                    !.Objects[Object].hHmgr = stock,
                                    !.Entries[Index].ProcessId = GDI_GLOBAL_PROCESS,
                                    !.gloc[t].hObj = stock],
                         t, TRUE)
             ELSE [g1 EXCEPT !.Entries[Index].ProcessId = PrevProcId,
                             !.gpc[t] = "stock_lock"])

\* The type the handle stands for gets the stock flag, if the entry has that
\* type; the object becomes global, or another thread holds the body and the
\* attempt is repeated.  Where the exchange of the type fails, the function
\* returns with the entry as it is: locked.
ConvertToStockObj_Locked(t) ==
    /\ At(t, "stock_locked")
    /\ LET g == GNow
           hObj == gloc[t].hObj
           Index == GDI_HANDLE_GET_INDEX(hObj)
           Entry == Entries[Index]
           PrevProcId == gloc[t].PrevProcId
           OldType == (GDI_HANDLE_GET_UPPER(hObj) % 32) * TwoTo16 + GDI_HANDLE_GET_UPPER(hObj)
           NewType == OldType + GDI_ENTRY_STOCK_MASK
           PrevType == Entry.Type
           g1 == IF PrevType = OldType THEN [g EXCEPT !.Entries[Index].Type = NewType] ELSE g
           Object == BodyOf(g, Entry)
           stock == [hObj EXCEPT !.upper = @ + GDI_ENTRY_STOCK_MASK]
       IN  GdiCommit(
             IF ~ (PrevType = OldType /\ Entry.KernelData # NullData)
             THEN Result(g1, t, FALSE)
             ELSE IF Touch(g, Object).fault # "" THEN Result(Touch(g1, Object), t, FALSE)
             ELSE IF Objects[Object].cExclusiveLock = 0 \/ Objects[Object].Tid = t
             THEN Result([g1 EXCEPT !.GDIHandleCount[WithoutLock(PrevProcId)] = @ - 1,
                                    !.Objects[Object].hHmgr = stock,
                                    !.Entries[Index].ProcessId = GDI_GLOBAL_PROCESS,
                                    !.gloc[t].hObj = stock],
                         t, TRUE)
             ELSE [g1 EXCEPT !.Entries[Index].ProcessId = PrevProcId,
                             !.gpc[t] = "stock_lock"])

\* ---- GDIOBJ_SetOwnership
\* GDIOBJ_SetOwnership returns Ret, to its caller or into GDIOBJ_CopyOwnership
OwnRet(g, t, Ret) ==
    IF g.gloc[t].cont = "" THEN Result(g, t, Ret) ELSE [g EXCEPT !.gpc[t] = g.gloc[t].cont]

SetOwnership_Call(g, t, ObjectHandle, NewOwner) ==
    LET g1 == [g EXCEPT !.gloc[t].ObjectHandle = ObjectHandle,
                        !.gloc[t].NewOwner = NewOwner,
                        !.gloc[t].ProcessId = ProcessOf(t)]
    IN  IF GDI_HANDLE_IS_STOCKOBJ(ObjectHandle) THEN OwnRet(g1, t, TRUE)
        ELSE [g1 EXCEPT !.gpc[t] = "own_lock"]

GDIOBJ_SetOwnership(t, ObjectHandle, NewOwner) ==
    /\ GdiIdle(t)
    /\ GdiCommit(SetOwnership_Call([GNow EXCEPT !.gloc[t].op = "set_ownership"], t,
                                   ObjectHandle, NewOwner))

\* InterlockedCompareExchangePointer(Destination, Exchange, Comperand)
InterlockedCompareExchange(Destination, Exchange, Comperand) ==
    IF Destination = Comperand THEN Exchange ELSE Destination

\* LockHandle: InterlockedCompareExchangePointer(&Entry->ProcessId, ProcessId,
\* LockedProcessId), and the branches on what it returns
SetOwnership_Lock(t) ==
    /\ At(t, "own_lock")
    /\ LET g == GNow
           Index == GDI_HANDLE_GET_INDEX(gloc[t].ObjectHandle)
           ProcessId == gloc[t].ProcessId
           LockedProcessId == WithLock(ProcessId)
           PrevProcId == Entries[Index].ProcessId
           g1 == [g EXCEPT !.Entries[Index].ProcessId =
                              InterlockedCompareExchange(@, ProcessId, LockedProcessId),
                           !.gloc[t].PrevProcId = PrevProcId]
       IN  GdiCommit(
             IF PrevProcId = ProcessId THEN [g1 EXCEPT !.gpc[t] = "own_locked"]
             ELSE IF PrevProcId = LockedProcessId THEN g1
             ELSE IF WithoutLock(PrevProcId) = 0
             THEN [g1 EXCEPT !.gloc[t].ProcessId = 0]
             ELSE OwnRet(g1, t, FALSE))

\* The entry, believed locked, gets its new owner and the processes their
\* counts, or another thread holds the body and the attempt is repeated
SetOwnership_Locked(t) ==
    /\ At(t, "own_locked")
    /\ LET g == GNow
           Index == GDI_HANDLE_GET_INDEX(gloc[t].ObjectHandle)
           Entry == Entries[Index]
           PrevProcId == gloc[t].PrevProcId
           NewOwner == gloc[t].NewOwner
           Object == BodyOf(g, Entry)
           g1 == IF WithoutLock(PrevProcId) # 0
                 THEN [g EXCEPT !.GDIHandleCount[WithoutLock(PrevProcId)] = @ - 1] ELSE g
           g2 == IF NewOwner # NULL
                 THEN [g1 EXCEPT !.GDIHandleCount[NewOwner] = @ + 1] ELSE g1
       IN  GdiCommit(
             IF EntryBaseType(Entry.Type) = 0 THEN OwnRet(g, t, FALSE)
             ELSE IF Touch(g, Object).fault # "" THEN OwnRet(Touch(g, Object), t, FALSE)
             ELSE IF Objects[Object].cExclusiveLock = 0 \/ Objects[Object].Tid = t
             THEN OwnRet([g2 EXCEPT !.Entries[Index].ProcessId = NewOwner], t, TRUE)
             ELSE [g EXCEPT !.Entries[Index].ProcessId = PrevProcId,
                            !.gpc[t] = "own_lock"])

\* ---- GDIOBJ_CopyOwnership
GDIOBJ_CopyOwnership(t, CopyFrom, CopyTo) ==
    /\ GdiIdle(t)
    /\ LET FromEntry == Entries[GDI_HANDLE_GET_INDEX(CopyFrom)]
           g == [GNow EXCEPT !.gloc[t] = [NoGLoc EXCEPT !.op = "copy_ownership",
                                            !.hObj = CopyFrom, !.ObjectHandle = CopyTo,
                                            !.HandleProcessId =
                                                WithoutLock(FromEntry.ProcessId)]]
       IN  GdiCommit(
             IF GDI_HANDLE_IS_STOCKOBJ(CopyFrom) \/ GDI_HANDLE_IS_STOCKOBJ(CopyTo)
             THEN Result(g, t, TRUE)
             ELSE [g EXCEPT !.gpc[t] = "copy_lock"])

\* LockHandleFrom: InterlockedCompareExchangePointer(&FromEntry->ProcessId,
\* FromProcessId, FromLockedProcessId), and the branches on what it returns
CopyOwnership_Lock(t) ==
    /\ At(t, "copy_lock")
    /\ LET g == GNow
           Index == GDI_HANDLE_GET_INDEX(gloc[t].hObj)
           FromProcessId == gloc[t].HandleProcessId
           FromLockedProcessId == WithLock(FromProcessId)
           FromPrevProcId == Entries[Index].ProcessId
           g1 == [g EXCEPT !.Entries[Index].ProcessId =
                              InterlockedCompareExchange(@, FromProcessId,
                                                         FromLockedProcessId)]
       IN  GdiCommit(
             IF FromPrevProcId = FromProcessId THEN [g1 EXCEPT !.gpc[t] = "copy_locked"]
             ELSE IF FromPrevProcId = FromLockedProcessId THEN g1
             ELSE IF WithoutLock(FromPrevProcId) # ProcessOf(t)
             THEN [g1 EXCEPT !.gloc[t].HandleProcessId = WithoutLock(FromPrevProcId)]
             ELSE Result(g1, t, FALSE))

\* The source entry, believed locked, is looked at, and GDIOBJ_SetOwnership
\* called for the target; or another thread holds the body and the attempt is
\* repeated
CopyOwnership_Locked(t) ==
    /\ At(t, "copy_locked")
    /\ LET g == GNow
           Index == GDI_HANDLE_GET_INDEX(gloc[t].hObj)
           FromEntry == Entries[Index]
           FromPrevProcId == gloc[t].HandleProcessId
           Object == BodyOf(g, FromEntry)
       IN  GdiCommit(
             IF EntryBaseType(FromEntry.Type) = 0 THEN Result(g, t, FALSE)
             ELSE IF Touch(g, Object).fault # "" THEN Result(Touch(g, Object), t, FALSE)
             ELSE IF Objects[Object].cExclusiveLock = 0 \/ Objects[Object].Tid = t
             THEN SetOwnership_Call([g EXCEPT !.gloc[t].cont = "copy_unlock"], t,
                                    gloc[t].ObjectHandle, FromPrevProcId)
             ELSE [g EXCEPT !.Entries[Index].ProcessId = FromPrevProcId,
                            !.gpc[t] = "copy_lock"])

\* InterlockedExchangePointer(&FromEntry->ProcessId, FromPrevProcId)
CopyOwnership_Unlock(t) ==
    /\ At(t, "copy_unlock")
    /\ GdiCommit(Result([GNow EXCEPT
            !.Entries[GDI_HANDLE_GET_INDEX(gloc[t].hObj)].ProcessId =
                gloc[t].HandleProcessId], t, TRUE))

\* ---- GDI_CleanupForProcess
\* The passes of GDI_CleanupForProcess: the base type each looks for
PassType(pass) ==
    CASE pass = 1 -> GDI_OBJECT_TYPE_DC
      [] pass = 2 -> GDI_OBJECT_TYPE_BRUSH
      [] pass = 3 -> GDI_OBJECT_TYPE_BITMAP
      [] OTHER -> GDI_OBJECT_TYPE_DONTCARE
LastPass == 4

\* IntDeleteHandlesForProcess is entered for the pass, or the passes are over
EnterPass(g, t, pass) ==
    IF pass > LastPass THEN Result(g, t, TRUE)
    ELSE IF g.GDIHandleCount[ProcessOf(t)] > 0
    THEN [g EXCEPT !.gloc[t].pass = pass, !.gloc[t].Index = RESERVE_ENTRIES_COUNT,
                   !.gpc[t] = "sweep"]
    ELSE IF pass = LastPass THEN Result(g, t, TRUE)
    ELSE [g EXCEPT !.gloc[t].pass = pass, !.gloc[t].Index = GDI_HANDLE_COUNT,
                   !.gpc[t] = "sweep"]

\* The process is destroyed: its other threads are gone, the last one sweeps
GDI_CleanupForProcess(t) ==
    /\ GdiIdle(t)
    /\ \A u \in GdiThreads : ProcessOf(u) = ProcessOf(t) => gpc[u] = "idle"
    /\ LET g == [GNow EXCEPT
                   !.gpc = [u \in GdiThreads |->
                              IF ProcessOf(u) = ProcessOf(t) /\ u # t THEN "exited" ELSE @[u]],
                   !.gloc[t] = [NoGLoc EXCEPT !.op = "cleanup", !.cont = "sweep_next"]]
       IN  GdiCommit(EnterPass(g, t, 1))

DeleteHandlesOfAnyType(t) ==
    /\ At(t, "sweep")
    /\ LET g == GNow
           Index == gloc[t].Index
           ObjectType == PassType(gloc[t].pass)
       IN  GdiCommit(
             IF Index >= GDI_HANDLE_COUNT THEN EnterPass(g, t, gloc[t].pass + 1)
             ELSE IF WithoutLock(Entries[Index].ProcessId) = ProcessOf(t)
             THEN FreeObjByHandle_Call(g, t, MakeHandle(Index, Entries[Index].Type),
                                       GDI_OBJECT_TYPE_DONTCARE)
             ELSE [g EXCEPT !.gloc[t].Index = Index + 1])
\* The loop of IntDeleteHandlesForProcess, at an entry: an entry of the process
\* and of the pass's base type is freed by the handle built from it
DeleteHandles_Entry(t) ==
    /\ At(t, "sweep")
    /\ LET g == GNow
           Index == gloc[t].Index
           ObjectType == PassType(gloc[t].pass)
       IN  GdiCommit(
             IF Index >= GDI_HANDLE_COUNT THEN EnterPass(g, t, gloc[t].pass + 1)
             ELSE IF /\ WithoutLock(Entries[Index].ProcessId) = ProcessOf(t)
                     /\ \/ EntryBaseType(Entries[Index].Type) = ObjectType
                        \/ ObjectType = GDI_OBJECT_TYPE_DONTCARE
             THEN FreeObjByHandle_Call(g, t, MakeHandle(Index, Entries[Index].Type),
                                       GDI_OBJECT_TYPE_DONTCARE)
             ELSE [g EXCEPT !.gloc[t].Index = Index + 1])

\* After the free: the loop ends when the process has no handle left
DeleteHandles_Next(t) ==
    /\ At(t, "sweep_next")
    /\ GdiCommit(
         IF GDIHandleCount[ProcessOf(t)] = 0
         THEN EnterPass(GNow, t, gloc[t].pass + 1)
         ELSE [GNow EXCEPT !.gloc[t].Index = @ + 1, !.gpc[t] = "sweep"])

\* ---- the handle table under changes of ownership: two threads of one
\* process, objects of one type.  One thread makes the objects and frees them,
\* the other changes whose they are.
Makers == {1}
Changers == {2}
\* handles the maker gets from alloc, at most, in a run
MaxOwned == 2
NextOwnership ==
    \/ \E t \in Makers :
         Cardinality(minted) < MaxOwned
            /\ GDIOBJ_AllocObjWithHandle(t, GDI_OBJECT_TYPE_PALETTE)
    \/ \E t \in Makers : PopFreeEntry_Read(t)
    \/ \E t \in Makers : PopFreeEntry_Lock(t)
    \/ \E t \in Makers : PopFreeEntry_Swap(t)
    \/ \E t \in Makers : AllocObjWithHandle_Lock(t)
    \/ \E t \in Makers : AllocObjWithHandle_Publish(t)
    \/ \E t \in Makers : AllocObjWithHandle_Count(t)
    \/ \E t \in Makers, h \in minted : GDIOBJ_FreeObjByHandle(t, h, GDI_OBJECT_TYPE_PALETTE)
    \/ \E t \in Makers : FreeObjByHandle_Lock(t)
    \/ \E t \in Makers : FreeObjByHandle_Locked(t)
    \/ \E t \in Makers : FreeObjByHandle_Push(t)
    \/ \E t \in Makers : FreeObjByHandle_Cleanup(t)
    \/ \E t \in Makers, b \in BodyIds : GDIOBJ_UnlockObjByPtr(t, b)
    \/ \E t \in Changers, h \in minted, NewOwner \in Pids \cup {NULL} :
         /\ \A p \in Pids : GDIHandleCount[p] \in 0..NumSlots
         /\ GDIOBJ_SetOwnership(t, h, NewOwner)
    \/ \E t \in Changers : SetOwnership_Lock(t)
    \/ \E t \in Changers : SetOwnership_Locked(t)
    \/ \E t \in Changers, h \in minted : GDIOBJ_ConvertToStockObj(t, h)
    \/ \E t \in Changers : ConvertToStockObj_Lock(t)
    \/ \E t \in Changers : ConvertToStockObj_Locked(t)
    \/ \E t \in Makers \cup Changers : GdiReturn(t)
SpecOwnership == Init /\ [][NextOwnership]_vars

\* The entry of the table a thread is in the critical section of, if any
InsideSlot(t) ==
    CASE gpc[t] = "pop_swap" -> gloc[t].idxFirst
      [] gpc[t] = "alloc_locked" -> gloc[t].Index
      [] gpc[t] \in {"free_locked", "lock_locked", "share_locked", "stock_locked"} ->
            GDI_HANDLE_GET_INDEX(gloc[t].hObj)
      [] gpc[t] = "own_locked" -> GDI_HANDLE_GET_INDEX(gloc[t].ObjectHandle)
      [] gpc[t] \in {"copy_locked", "copy_unlock"} -> GDI_HANDLE_GET_INDEX(gloc[t].hObj)
      [] OTHER -> 0

\* C12: slot-lock mutual exclusion.  A thread is inside an entry's critical
\* section only with the entry's lock bit set, no two threads are inside the
\* same entry's at a time, and a step clears the lock bit of an entry only if
\* its thread was inside the entry's critical section.
C12_SlotLockExclusion ==
    [][ /\ \A t \in GdiThreads :
             InsideSlot(t)' # 0 => IsLocked(Entries'[InsideSlot(t)'].ProcessId)
        /\ \A t, u \in GdiThreads :
             InsideSlot(t)' # 0 /\ InsideSlot(t)' = InsideSlot(u)' => t = u
        /\ \A i \in Slots :
             IsLocked(Entries[i].ProcessId) /\ ~ IsLocked(Entries'[i].ProcessId)
                => \E t \in GdiThreads : InsideSlot(t) = i /\ gpc'[t] # gpc[t] ]_vars

\* ---- allocation and release alone: two threads of one process, one type
OwnThreads == {1, 2}
NextAllocFree ==
    \/ \E t \in OwnThreads :
         Cardinality(minted) < MaxHandles
            /\ GDIOBJ_AllocObjWithHandle(t, GDI_OBJECT_TYPE_BRUSH)
    \/ \E t \in OwnThreads : PopFreeEntry_Read(t)
    \/ \E t \in OwnThreads : PopFreeEntry_Lock(t)
    \/ \E t \in OwnThreads : PopFreeEntry_Swap(t)
    \/ \E t \in OwnThreads : AllocObjWithHandle_Lock(t)
    \/ \E t \in OwnThreads : AllocObjWithHandle_Publish(t)
    \/ \E t \in OwnThreads : AllocObjWithHandle_Count(t)
    \/ \E t \in OwnThreads, h \in minted : GDIOBJ_FreeObjByHandle(t, h, GDI_OBJECT_TYPE_BRUSH)
    \/ \E t \in OwnThreads : FreeObjByHandle_Lock(t)
    \/ \E t \in OwnThreads : FreeObjByHandle_Locked(t)
    \/ \E t \in OwnThreads : FreeObjByHandle_Push(t)
    \/ \E t \in OwnThreads : FreeObjByHandle_Cleanup(t)
    \/ \E t \in OwnThreads, b \in BodyIds : GDIOBJ_UnlockObjByPtr(t, b)
    \/ \E t \in OwnThreads : GdiReturn(t)
SpecAllocFree == Init /\ [][NextAllocFree]_vars

\* ---- the exclusive lock: two threads of one process, objects of one type
NextLock ==
    \/ \E t \in OwnThreads :
         Cardinality(minted) < MaxOwned
            /\ GDIOBJ_AllocObjWithHandle(t, GDI_OBJECT_TYPE_PALETTE)
    \/ \E t \in OwnThreads : PopFreeEntry_Read(t)
    \/ \E t \in OwnThreads : PopFreeEntry_Lock(t)
    \/ \E t \in OwnThreads : PopFreeEntry_Swap(t)
    \/ \E t \in OwnThreads : AllocObjWithHandle_Lock(t)
    \/ \E t \in OwnThreads : AllocObjWithHandle_Publish(t)
    \/ \E t \in OwnThreads : AllocObjWithHandle_Count(t)
    \/ \E t \in OwnThreads, h \in minted :
         GDIOBJ_FreeObjByHandle(t, h, GDI_OBJECT_TYPE_PALETTE)
    \/ \E t \in OwnThreads : FreeObjByHandle_Lock(t)
    \/ \E t \in OwnThreads : FreeObjByHandle_Locked(t)
    \/ \E t \in OwnThreads : FreeObjByHandle_Push(t)
    \/ \E t \in OwnThreads : FreeObjByHandle_Cleanup(t)
    \/ \E t \in OwnThreads, h \in minted :
         /\ \A b \in BodyIds : locked[t][b] < MaxDepth
         /\ GDIOBJ_LockObj(t, h, GDI_OBJECT_TYPE_PALETTE)
    \/ \E t \in OwnThreads : LockObj_Lock(t)
    \/ \E t \in OwnThreads : LockObj_Locked(t)
    \/ \E t \in OwnThreads, b \in BodyIds : GDIOBJ_UnlockObjByPtr(t, b)
    \/ \E t \in OwnThreads : GdiReturn(t)
SpecLock == Init /\ [][NextLock]_vars

\* the thread has a body from alloc or lock_object that it has not unlocked
Holds(t, b) == locked[t][b] > 0

\* C13: exclusive-lock mutual exclusion and reentrancy.  A body a thread holds
\* from alloc or lock_object is live, locked, and owned by that thread, so no
\* two threads hold one body; the depth is never below zero; a lock_object of
\* the holding thread that finds the handle's body returns it, one deeper,
\* from its first look at the entry; and the depth right after alloc and one
\* lock_object is 2.
C13_ExclusiveLock ==
    [][ /\ \A t \in GdiThreads, b \in BodyIds :
             Holds(t, b)' => /\ Objects'[b].state = "used"
                             /\ Objects'[b].cExclusiveLock > 0
                             /\ Objects'[b].Tid = t
        /\ \A b \in BodyIds : Objects'[b].cExclusiveLock >= 0
        /\ \A t \in GdiThreads :
             LET Entry == Entries[GDI_HANDLE_GET_INDEX(gloc[t].hObj)]
                 b == Entry.KernelData[2]
             IN  /\ gpc[t] = "lock_locked" /\ gpc'[t] # "lock_locked"
                 /\ EntryMatches(Entry, gloc[t].hObj) /\ IsBody(Entry.KernelData)
                 /\ Objects[b].cExclusiveLock > 0 /\ Objects[b].Tid = t
                 => /\ gpc'[t] = "done" /\ gloc'[t].result = b
                    /\ Objects'[b].cExclusiveLock = Objects[b].cExclusiveLock + 1
                    /\ Objects'[b].Tid = t
                    /\ locked[t][b] = 1 => Objects'[b].cExclusiveLock = 2 ]_vars

\* ---- one entry used over and over: one thread makes an object, frees it
\* by the handle it got, and makes the next
Recyclers == {1}
\* objects made and freed, one after the other
MaxCycles == 257
NextReuse ==
    \/ \E t \in Recyclers :
         /\ \A b \in BodyIds : locked[t][b] = 0
         /\ Len(destroyed) < MaxCycles
         /\ GDIOBJ_AllocObjWithHandle(t, GDI_OBJECT_TYPE_PALETTE)
    \/ \E t \in Recyclers : PopFreeEntry_Read(t)
    \/ \E t \in Recyclers : PopFreeEntry_Lock(t)
    \/ \E t \in Recyclers : PopFreeEntry_Swap(t)
    \/ \E t \in Recyclers : AllocObjWithHandle_Lock(t)
    \/ \E t \in Recyclers : AllocObjWithHandle_Publish(t)
    \/ \E t \in Recyclers : AllocObjWithHandle_Count(t)
    \/ \E t \in Recyclers, b \in BodyIds :
         /\ locked[t][b] > 0
         /\ GDIOBJ_FreeObjByHandle(t, Objects[b].hHmgr, GDI_OBJECT_TYPE_PALETTE)
    \/ \E t \in Recyclers : FreeObjByHandle_Lock(t)
    \/ \E t \in Recyclers : FreeObjByHandle_Locked(t)
    \/ \E t \in Recyclers : FreeObjByHandle_Push(t)
    \/ \E t \in Recyclers : FreeObjByHandle_Cleanup(t)
    \/ \E t \in Recyclers : GdiReturn(t)
SpecReuse == Init /\ [][NextReuse]_vars

\* the values the reuse counter of an entry takes:
\* GDI_ENTRY_REUSE_MASK / GDI_ENTRY_REUSE_INC + 1
ReuseCounts == 256

\* free_by_handle gives the entry up: its reuse counter is one higher, modulo
\* its width
ReuseCounterStepped ==
    \A t \in GdiThreads :
        gpc[t] = "free_locked" /\ gpc'[t] = "free_push" =>
            LET i == GDI_HANDLE_GET_INDEX(gloc[t].hObj)
            IN  /\ GDI_ENTRY_GET_REUSECNT(Entries'[i].Type)
                     = (GDI_ENTRY_GET_REUSECNT(Entries[i].Type) + 1) % ReuseCounts
                /\ GDI_ENTRY_GET_REUSECNT(Entries'[i].Type)
                     # GDI_ENTRY_GET_REUSECNT(Entries[i].Type)

\* the handle of the k-th object destroyed fails validate_handle, for its
\* type and whichever process asks
FailsNow(k) ==
    \A p \in Pids :
        ~ GDIOBJ_ValidateHandle(Entries, destroyed[k].hHmgr,
                                GDI_HANDLE_GET_TYPE(destroyed[k].hHmgr), p)

\* how often the entry of the k-th object destroyed has been given up from
\* that object on: the objects destroyed since, and the one being destroyed
FreesSince(k) ==
    LET i == destroyed[k].hHmgr.index
    IN  Cardinality({j \in k..Len(destroyed) : destroyed[j].hHmgr.index = i})
        + Cardinality({t \in GdiThreads : /\ gpc[t] \in GivenUp
                                          /\ GDI_HANDLE_GET_INDEX(gloc[t].hObj) = i})

\* C14, as stated: a successful free_by_handle leaves the entry's reuse counter
\* one higher modulo its width, and the handle of every object freed before
\* fails validate_handle from then on, however often the entry is freed and
\* allocated again with the same type.
C14_StaleHandleFailsForever ==
    [][ReuseCounterStepped
        /\ \A k \in 1..Len(destroyed') : FailsNow(k)']_vars

\* C14, amended: ... fails validate_handle from then on, as long as the entry
\* has been freed fewer than 256 times (the values of its reuse counter) since
\* the handle was made.
C14_StaleHandleFailsUntilWrap ==
    [][ReuseCounterStepped
        /\ \A k \in 1..Len(destroyed') : FreesSince(k)' < ReuseCounts => FailsNow(k)']_vars

\* an entry lives again, with the type it had, after 255 frees since a handle
\* of it was made, and that handle still fails
C14_ReusedAlmostToWrap ==
    \E k \in 1..Len(destroyed) :
        /\ FreesSince(k) = ReuseCounts - 1
        /\ FailsNow(k)
        /\ LET Entry == Entries[destroyed[k].hHmgr.index]
           IN  /\ Entry.ProcessId \in Pids
               /\ Entry.Type % 128 = GDI_HANDLE_GET_TYPE(destroyed[k].hHmgr)
               /\ IsBody(Entry.KernelData)

\* ---- one object under every operation that takes its handle: one thread
\* makes it, unlocks it and frees it, another of the process works on it
\* handles alloc gives out, at most, in such a run
MaxValid == 1
NextValid ==
    \/ \E t \in Makers :
         Cardinality(minted) < MaxValid
            /\ GDIOBJ_AllocObjWithHandle(t, GDI_OBJECT_TYPE_PALETTE)
    \/ \E t \in Makers : PopFreeEntry_Read(t)
    \/ \E t \in Makers : AllocObjWithHandle_Lock(t)
    \/ \E t \in Makers : AllocObjWithHandle_Publish(t)
    \/ \E t \in Makers : AllocObjWithHandle_Count(t)
    \/ \E t \in Makers, h \in minted : GDIOBJ_FreeObjByHandle(t, h, GDI_OBJECT_TYPE_PALETTE)
    \/ \E t \in Makers : FreeObjByHandle_Lock(t)
    \/ \E t \in Makers : FreeObjByHandle_Locked(t)
    \/ \E t \in Makers : FreeObjByHandle_Push(t)
    \/ \E t \in Makers : FreeObjByHandle_Cleanup(t)
    \/ \E t \in Makers \cup Changers, b \in BodyIds : GDIOBJ_UnlockObjByPtr(t, b)
    \/ \E t \in Changers, h \in minted, NewOwner \in Pids \cup {NULL} :
         /\ \A p \in Pids : GDIHandleCount[p] \in 0..NumSlots
         /\ GDIOBJ_SetOwnership(t, h, NewOwner)
    \/ \E t \in Changers : SetOwnership_Lock(t)
    \/ \E t \in Changers : SetOwnership_Locked(t)
    \/ \E t \in Changers, h \in minted : GDIOBJ_ConvertToStockObj(t, h)
    \/ \E t \in Changers : ConvertToStockObj_Lock(t)
    \/ \E t \in Changers : ConvertToStockObj_Locked(t)
    \/ \E t \in Changers, CopyFrom, CopyTo \in minted :
         /\ \A p \in Pids : GDIHandleCount[p] \in 0..NumSlots
         /\ GDIOBJ_CopyOwnership(t, CopyFrom, CopyTo)
    \/ \E t \in Changers : CopyOwnership_Lock(t)
    \/ \E t \in Changers : CopyOwnership_Locked(t)
    \/ \E t \in Changers : CopyOwnership_Unlock(t)
    \/ \E t \in Changers, h \in minted :
         /\ \A b \in BodyIds : locked[t][b] = 0
         /\ GDIOBJ_LockObj(t, h, GDI_OBJECT_TYPE_PALETTE)
    \/ \E t \in Changers : LockObj_Lock(t)
    \/ \E t \in Changers : LockObj_Locked(t)
    \/ \E t \in Changers, h \in minted :
         /\ \A b \in BodyIds : shared[t][b] = 0
         /\ GDIOBJ_ShareLockObj(t, h, GDI_OBJECT_TYPE_PALETTE)
    \/ \E t \in Changers : ShareLockObj_Lock(t)
    \/ \E t \in Changers : ShareLockObj_Locked(t)
    \/ \E t \in Makers \cup Changers : GdiReturn(t)
SpecValid == Init /\ [][NextValid]_vars


\* validate_handle of a handle and its type, as the threads that make the
\* objects would get it now
ValidNow(h) ==
    \A t \in Makers :
        GDIOBJ_ValidateHandle(Entries, h, GDI_HANDLE_GET_TYPE(h), ProcessOf(t))

\* a free_by_handle of the handle has given its entry up, or destroyed the object
FreeBegun(h) ==
    \/ \E k \in 1..Len(destroyed) : destroyed[k].hHmgr = h
    \/ \E t \in GdiThreads : gpc[t] \in GivenUp /\ gloc[t].hObj = h

\* C15, as stated: the handle alloc returned validates, for its type and the
\* process that made it, in every state from the return of alloc until the
\* free of it, whatever operations are applied to the object in between.
C15_ValidUntilFreed ==
    \A h \in minted : ~ GDI_HANDLE_IS_STOCKOBJ(h) /\ ~ FreeBegun(h) => ValidNow(h)

\* the step is one of set_ownership or copy_ownership that writes a process
\* other than the makers' into the entry of index i, or one of
\* convert_to_stock that sets the stock flag in its type, or one of
\* free_by_handle that gives it up for the free list
TakesAway(i) ==
    \E t \in GdiThreads :
        \/ /\ gpc[t] = "own_locked" /\ gpc'[t] # "own_lock"
           /\ GDI_HANDLE_GET_INDEX(gloc[t].ObjectHandle) = i
           /\ \E u \in Makers : gloc[t].NewOwner \notin {NULL, ProcessOf(u)}
        \/ /\ gpc[t] = "copy_unlock" /\ gpc'[t] # "copy_unlock"
           /\ GDI_HANDLE_GET_INDEX(gloc[t].hObj) = i
           /\ \E u \in Makers : gloc[t].HandleProcessId \notin {NULL, ProcessOf(u)}
        \/ /\ gpc[t] = "stock_locked"
           /\ GDI_HANDLE_GET_INDEX(gloc[t].hObj) = i
           /\ Entries'[i].Type # Entries[i].Type
        \/ /\ gpc[t] = "free_locked" /\ gpc'[t] = "free_push"
           /\ GDI_HANDLE_GET_INDEX(gloc[t].hObj) = i

\* C15, amended: the handle validates when alloc has returned it, and goes on
\* validating over every step of lock, share-lock, unlock, set_ownership and
\* copy_ownership within the process or to no owner, until a step gives the
\* object to another process, sets the stock flag, or frees it.
C15_ValidUntilTakenAway ==
    [][\A h \in minted' :
          /\ ~ GDI_HANDLE_IS_STOCKOBJ(h)
          /\ h \in minted => ValidNow(h)
          /\ ~ TakesAway(GDI_HANDLE_GET_INDEX(h))
          => ValidNow(h)']_vars

\* the object has been made global by set_ownership, another thread holds it
\* locked, and its handle validates
C15_ValidWhileGlobalAndLocked ==
    \E h \in minted :
        LET Entry == Entries[GDI_HANDLE_GET_INDEX(h)]
        IN  /\ ValidNow(h) /\ ~ GDI_HANDLE_IS_STOCKOBJ(h)
            /\ WithoutLock(Entry.ProcessId) = GDI_GLOBAL_PROCESS
            /\ IsBody(Entry.KernelData)
            /\ \E t \in Changers : Holds(t, Entry.KernelData[2])

\* ---- handles that went stale: one thread makes objects, frees them and makes
\* new ones in their entries, and calls every function that takes a handle
\* with every handle it ever got
NextStale ==
    \/ \E t \in Recyclers :
         /\ Cardinality(minted) < MaxHandles
         /\ GDIOBJ_AllocObjWithHandle(t, GDI_OBJECT_TYPE_PALETTE)
    \/ \E t \in Recyclers : PopFreeEntry_Read(t)
    \/ \E t \in Recyclers : PopFreeEntry_Lock(t)
    \/ \E t \in Recyclers : PopFreeEntry_Swap(t)
    \/ \E t \in Recyclers : AllocObjWithHandle_Lock(t)
    \/ \E t \in Recyclers : AllocObjWithHandle_Publish(t)
    \/ \E t \in Recyclers : AllocObjWithHandle_Count(t)
    \/ \E t \in Recyclers, b \in BodyIds : GDIOBJ_UnlockObjByPtr(t, b)
    \/ \E t \in Recyclers, h \in minted :
         GDIOBJ_FreeObjByHandle(t, h, GDI_OBJECT_TYPE_DONTCARE)
    \/ \E t \in Recyclers : FreeObjByHandle_Lock(t)
    \/ \E t \in Recyclers : FreeObjByHandle_Locked(t)
    \/ \E t \in Recyclers : FreeObjByHandle_Push(t)
    \/ \E t \in Recyclers : FreeObjByHandle_Cleanup(t)
    \/ \E t \in Recyclers, h \in minted : ValidateHandle(t, h, GDI_OBJECT_TYPE_PALETTE)
    \/ \E t \in Recyclers, h \in minted : GDIOBJ_OwnedByCurrentProcess(t, h)
    \/ \E t \in Recyclers, h \in minted :
         /\ \A b \in BodyIds : locked[t][b] < MaxDepth
         /\ GDIOBJ_LockObj(t, h, GDI_OBJECT_TYPE_PALETTE)
    \/ \E t \in Recyclers : LockObj_Lock(t)
    \/ \E t \in Recyclers : LockObj_Locked(t)
    \/ \E t \in Recyclers, h \in minted :
         /\ \A b \in BodyIds : shared[t][b] = 0
         /\ GDIOBJ_ShareLockObj(t, h, GDI_OBJECT_TYPE_PALETTE)
    \/ \E t \in Recyclers : ShareLockObj_Lock(t)
    \/ \E t \in Recyclers : ShareLockObj_Locked(t)
    \/ \E t \in Recyclers, h \in minted, NewOwner \in Pids \cup {NULL} :
         /\ \A p \in Pids : GDIHandleCount[p] \in 0..NumSlots
         /\ GDIOBJ_SetOwnership(t, h, NewOwner)
    \/ \E t \in Recyclers : SetOwnership_Lock(t)
    \/ \E t \in Recyclers : SetOwnership_Locked(t)
    \/ \E t \in Recyclers, CopyFrom, CopyTo \in minted :
         /\ \A p \in Pids : GDIHandleCount[p] \in 0..NumSlots
         /\ GDIOBJ_CopyOwnership(t, CopyFrom, CopyTo)
    \/ \E t \in Recyclers : CopyOwnership_Lock(t)
    \/ \E t \in Recyclers : CopyOwnership_Locked(t)
    \/ \E t \in Recyclers : CopyOwnership_Unlock(t)
    \/ \E t \in Recyclers, h \in minted : GDIOBJ_ConvertToStockObj(t, h)
    \/ \E t \in Recyclers : ConvertToStockObj_Lock(t)
    \/ \E t \in Recyclers : ConvertToStockObj_Locked(t)
    \/ \E t \in Recyclers : GdiReturn(t)
SpecStale == Init /\ [][NextStale]_vars

\* the functions that take a handle, by the names of their calls
HandleOps ==
    {"validate", "lock", "share_lock", "free", "set_ownership", "copy_ownership",
     "stock", "owned"}

\* the call the step of thread t belongs to: the one it makes, or the one it
\* is in
CallOf(t) == IF gpc[t] = "idle" THEN gloc'[t] ELSE gloc[t]

\* the handles given to the call
HandlesOf(l) == {l.hObj, l.ObjectHandle} \ {NoHandle}

\* the upper half of the handle is not what the type of its entry holds
UpperDiffers(E, h) == EntryUpper(E[GDI_HANDLE_GET_INDEX(h)].Type) # GDI_HANDLE_GET_UPPER(h)

\* The step is one of a call, of the functions named, that was given a handle
\* whose upper half differed from its entry's type.  (The one thread alone
\* changes the table: a handle that differs now differed when the call was
\* made, but for the free_by_handle that has stepped the counter itself.)
OnStaleHandle(t, ops) ==
    /\ gpc[t] # "done"
    /\ gpc[t] # "idle" \/ gpc'[t] # "idle"
    /\ CallOf(t).op \in ops
    /\ gpc[t] \notin GivenUp
    /\ \E h \in HandlesOf(CallOf(t)) : UpperDiffers(Entries, h)

\* what the call returned says it failed
Failed(l) == IF l.op \in {"lock", "share_lock"} THEN l.result = NULL ELSE l.result = FALSE

\* a call on such a handle changes no entry but for its lock, no body and no
\* count, and returns failure; an entry of its handles that is locked when it
\* returns was so before the call, which looked at it in one step
StaleRejected(ops) ==
    \A t \in Recyclers :
        OnStaleHandle(t, ops) =>
            /\ GDIHandleCount' = GDIHandleCount
            /\ Objects' = Objects
            /\ FirstFree' = FirstFree
            /\ \A i \in Slots :
                 [Entries'[i] EXCEPT !.ProcessId = WithoutLock(@)]
                    = [Entries[i] EXCEPT !.ProcessId = WithoutLock(@)]
            /\ gpc'[t] = "done" =>
                 /\ Failed(gloc'[t])
                 /\ \A h \in HandlesOf(CallOf(t)) :
                      IsLocked(Entries'[GDI_HANDLE_GET_INDEX(h)].ProcessId) =>
                          /\ gpc[t] = "idle"
                          /\ IsLocked(Entries[GDI_HANDLE_GET_INDEX(h)].ProcessId)

\* C16: every function that takes a handle (validate_handle, lock_object,
\* share_lock_object, free_by_handle, set_ownership, copy_ownership,
\* convert_to_stock, owned_by_current_process) fails and leaves the entry, the
\* body and the counts of the processes as they were when the upper half of
\* the handle differs from the type of its entry, as with a handle whose entry
\* was freed and given to a new object of the same process.
C16_StaleHandleRejected == [][StaleRejected(HandleOps)]_vars

\* the step is the one in which alloc_object_with_handle returns to thread t
AllocReturns(t) == gpc[t] = "alloc_count" /\ gpc'[t] = "done"

\* what a successful alloc_object_with_handle has made when it returns to
\* thread t: the body, the entry and the handle
AllocMade(t) ==
    LET l == gloc[t]
        b == l.result
        i == l.Index
        Entry == Entries[i]
    IN  /\ b \in BodyIds
        /\ Objects[b] = [FreeBody EXCEPT !.state = "used",
                            !.BaseType = GDI_OBJECT_GET_TYPE_INDEX(l.ObjectType),
                            !.hHmgr = [upper |-> EntryUpper(Entry.Type), index |-> i],
                            !.cExclusiveLock = 1,
                            !.Tid = t]
        /\ Objects[b].ulShareCount = 0
        /\ i \in RESERVE_ENTRIES_COUNT..(GDI_HANDLE_COUNT - 1)
        /\ Entry.KernelData = PointerTo(b)
        /\ WithoutLock(Entry.ProcessId) = ProcessOf(t)
        /\ (\A u \in GdiThreads \ {t} : InsideSlot(u) # i) => ~ IsLocked(Entry.ProcessId)
        /\ EntryUpper(Entry.Type) = l.ObjectType + EntryReuseBits(Entry.Type)
        /\ EntryBaseType(Entry.Type) = GDI_OBJECT_GET_TYPE_INDEX(l.ObjectType)

\* C17: a successful alloc_object_with_handle(type) returns a zeroed body with
\* exclusive lock depth 1, share count 0 and the calling thread as owner; its
\* entry has an index in [RESERVE_ENTRIES_COUNT, GDI_HANDLE_COUNT), points at
\* the body, is owned by the calling process with the lock bit clear (the step
\* that fills the entry in leaves it so, and it is so at the return unless
\* another thread is inside the entry at that moment), and has the type asked
\* for with the reuse bits the entry had; the body's handle is the index with
\* the low 16 bits of the entry's type above it; and the count of the process
\* is one higher than before, no other step of the call having changed it.
C17_AllocPostconditions ==
    [][\A t \in OwnThreads :
          /\ gpc[t] = "alloc_locked" /\ gpc'[t] = "alloc_count" =>
                /\ EntryReuseBits(Entries'[gloc[t].Index].Type)
                      = EntryReuseBits(Entries[gloc[t].Index].Type)
                /\ Entries'[gloc[t].Index].ProcessId = ProcessOf(t)
          /\ CallOf(t).op = "alloc" /\ gpc'[t] # gpc[t] /\ ~ AllocReturns(t) =>
                GDIHandleCount' = GDIHandleCount
          /\ AllocReturns(t) =>
                /\ AllocMade(t)'
                /\ GDIHandleCount' = [GDIHandleCount EXCEPT ![ProcessOf(t)] = @ + 1]]_vars

\* alloc_object_with_handle has returned an object in an entry used before,
\* while the other thread is inside that entry with a handle of the object
\* that was there
C17_AllocReturnedInReusedEntry ==
    \E t \in OwnThreads :
        /\ gpc[t] = "done" /\ gloc[t].op = "alloc" /\ gloc[t].result # NULL
        /\ AllocMade(t)
        /\ EntryReuseBits(Entries[gloc[t].Index].Type) # 0
        /\ \E u \in OwnThreads \ {t} : InsideSlot(u) = gloc[t].Index

\* the entries on the free list: FirstFree and what follows it, link by link
RECURSIVE FreeListFrom(_, _, _)
FreeListFrom(E, k, n) ==
    IF k = 0 \/ n = 0 THEN {}
    ELSE {k} \cup FreeListFrom(E, IF IsBody(E[k].KernelData) THEN 0 ELSE E[k].KernelData[2],
                               n - 1)
FreeList == FreeListFrom(Entries, FirstFree, NumSlots)

\* the handles of the objects whose cleanup routine has run
Cleaned == {destroyed[k].hHmgr : k \in 1..Len(destroyed)}

\* the step is the one in which free_by_handle runs the cleanup routine
\* and returns to thread t
FreeCleansUp(t) == gpc[t] = "free_cleanup" /\ gpc'[t] = "done"

\* entry i, given up by thread t's free_by_handle of handle h, has been taken
\* off the free list since: an alloc_object_with_handle of another thread
\* holds it, or has made the next object in it (which may be freed in its turn)
TakenAgain(t, i, h) ==
    \/ EntryBaseType(Entries[i].Type) # 0
    \/ EntryUpper(Entries[i].Type) # EntryUpper(GDI_HANDLE_GET_UPPER(h) + GDI_ENTRY_REUSE_INC)
    \/ \E u \in GdiThreads \ {t} :
          /\ gloc[u].op = "alloc" /\ gloc[u].Index = i
          /\ gpc[u] \in {"alloc_lock", "alloc_locked"}

\* C18: over every sequence and interleaving of free_by_handle calls on the
\* handle of an object (repeated, concurrent from two threads, after the
\* entry was used again) the cleanup routine of its type runs at most once,
\* and exactly once in the free_by_handle call that succeeds; after that
\* call validate_handle of the handle is false, the body's hHmgr is null and
\* the entry is on the free list (the call put it there, and it is there
\* when the call returns unless an allocation has taken it since).
C18_CleanupOnce ==
    [][/\ \A j, k \in 1..Len(destroyed') : destroyed'[j].hHmgr = destroyed'[k].hHmgr => j = k
       /\ \A b \in BodyIds : Objects'[b].hHmgr = NoHandle \/ Objects'[b].hHmgr \notin Cleaned'
       /\ Len(destroyed') # Len(destroyed) => \E t \in OwnThreads : FreeCleansUp(t)
       /\ \A t \in OwnThreads :
            LET h == gloc[t].hObj
                i == GDI_HANDLE_GET_INDEX(h)
            IN  /\ gpc'[t] = "done" /\ gpc[t] # "done" /\ gloc'[t].op = "free"
                      /\ gloc'[t].result = TRUE => FreeCleansUp(t)
                /\ gpc[t] = "push_cas" /\ gpc'[t] = "free_cleanup" =>
                      FirstFree' = i /\ i \in FreeList'
                /\ FreeCleansUp(t) =>
                      /\ destroyed' = Append(destroyed, [hHmgr |-> h, pass |-> 0])
                      /\ \A p \in Pids :
                           ~ GDIOBJ_ValidateHandle(Entries', h, GDI_HANDLE_GET_TYPE(h), p)
                      /\ Objects'[gloc[t].Object].hHmgr = NoHandle
                      /\ i \in FreeList' \/ TakenAgain(t, i, h)']_vars

\* the object of a handle has been destroyed, its entry holds the next
\* object, and a free_by_handle of the old handle has just failed
C18_FreedAgainAfterReuse ==
    \E t \in OwnThreads :
        /\ gpc[t] = "done" /\ gloc[t].op = "free" /\ gloc[t].result = FALSE
        /\ gloc[t].hObj \in Cleaned
        /\ EntryBaseType(Entries[GDI_HANDLE_GET_INDEX(gloc[t].hObj)].Type) # 0

\* ---- a free_by_handle of an object in shared use: one thread makes the
\* objects, unlocks them and frees each once; another of the process
\* share-locks them, more than once at a time, and unlocks them
\* the handle is of a live object that a free_by_handle has marked ready to die
MarkedReadyToDie(h) ==
    LET Entry == Entries[GDI_HANDLE_GET_INDEX(h)]
    IN  /\ EntryMatches(Entry, h) /\ IsBody(Entry.KernelData)
        /\ Objects[Entry.KernelData[2]].ReadyToDie
NextShare ==
    \/ \E t \in Makers :
         /\ Cardinality(minted) < MaxOwned
         /\ GDIOBJ_AllocObjWithHandle(t, GDI_OBJECT_TYPE_PALETTE)
    \/ \E t \in Makers : PopFreeEntry_Read(t)
    \/ \E t \in Makers : PopFreeEntry_Lock(t)
    \/ \E t \in Makers : PopFreeEntry_Swap(t)
    \/ \E t \in Makers : AllocObjWithHandle_Lock(t)
    \/ \E t \in Makers : AllocObjWithHandle_Publish(t)
    \/ \E t \in Makers : AllocObjWithHandle_Count(t)
    \/ \E t \in Makers, b \in BodyIds : GDIOBJ_UnlockObjByPtr(t, b)
    \/ \E t \in Makers, h \in minted :
         /\ ~ MarkedReadyToDie(h)
         /\ GDIOBJ_FreeObjByHandle(t, h, GDI_OBJECT_TYPE_PALETTE)
    \/ \E t \in Makers \cup Changers : FreeObjByHandle_Lock(t)
    \/ \E t \in Makers \cup Changers : FreeObjByHandle_Locked(t)
    \/ \E t \in Makers \cup Changers : FreeObjByHandle_Push(t)
    \/ \E t \in Makers \cup Changers : FreeObjByHandle_Cleanup(t)
    \/ \E t \in Changers, h \in minted :
         /\ \A b \in BodyIds : shared[t][b] < MaxDepth
         /\ GDIOBJ_ShareLockObj(t, h, GDI_OBJECT_TYPE_PALETTE)
    \/ \E t \in Changers : ShareLockObj_Lock(t)
    \/ \E t \in Changers : ShareLockObj_Locked(t)
    \/ \E t \in Changers, b \in BodyIds : GDIOBJ_ShareUnlockObjByPtr(t, b)
    \/ \E t \in Makers \cup Changers : GdiReturn(t)
SpecShare == Init /\ [][NextShare]_vars

\* the step is the one in which thread t's free_by_handle, having locked the
\* entry of its handle, finds the object there in shared use
FreeFindsShared(t) ==
    LET Entry == Entries[GDI_HANDLE_GET_INDEX(gloc[t].hObj)]
    IN  /\ gpc[t] = "free_locked" /\ gpc'[t] # "free_locked"
        /\ EntryMatches(Entry, gloc[t].hObj) /\ IsBody(Entry.KernelData)
        /\ Objects[Entry.KernelData[2]].ulShareCount # 0

\* the step is a share_unlock of thread t that brings the share count of a
\* body marked ready to die to zero
UnlockBringsToZero(t) ==
    /\ gpc[t] = "idle" /\ gloc'[t].op = "share_unlock"
    /\ \E b \in BodyIds :
          /\ shared'[t][b] = shared[t][b] - 1
          /\ Objects[b].ulShareCount = 1 /\ Objects'[b].ulShareCount = 0
          /\ Objects[b].ReadyToDie
          /\ gloc'[t].hObj = Objects[b].hHmgr

CleanupTypes ==
    {GDI_OBJECT_TYPE_DC, GDI_OBJECT_TYPE_BRUSH, GDI_OBJECT_TYPE_BITMAP,
     GDI_OBJECT_TYPE_PALETTE, GDI_OBJECT_TYPE_PEN}
\* the process of the thread has not been cleaned up for
Alive(t) == \A u \in GdiThreads : ProcessOf(u) = ProcessOf(t) => gpc[u] # "exited"
NextCleanup ==
    \/ \E t \in Makers, ObjectType \in CleanupTypes :
         /\ Alive(t)
         /\ Cardinality(minted) < MaxOwned
         /\ GDIOBJ_AllocObjWithHandle(t, ObjectType)
    \/ \E t \in Makers : PopFreeEntry_Read(t)
    \/ \E t \in Makers : AllocObjWithHandle_Lock(t)
    \/ \E t \in Makers : AllocObjWithHandle_Publish(t)
    \/ \E t \in Makers : AllocObjWithHandle_Count(t)
    \/ \E t \in Makers, b \in BodyIds : Alive(t) /\ GDIOBJ_UnlockObjByPtr(t, b)
    \/ \E t \in Makers : FreeObjByHandle_Lock(t)
    \/ \E t \in Makers : FreeObjByHandle_Locked(t)
    \/ \E t \in Makers : FreeObjByHandle_Push(t)
    \/ \E t \in Makers : FreeObjByHandle_Cleanup(t)
    \/ \E t \in Makers, h \in minted :
         /\ Alive(t)
         /\ \A b \in BodyIds : shared[t][b] = 0
         /\ GDIOBJ_ShareLockObj(t, h, GDI_HANDLE_GET_TYPE(h))
    \/ \E t \in Makers : ShareLockObj_Lock(t)
    \/ \E t \in Makers : ShareLockObj_Locked(t)
    \/ \E t \in Makers, h \in minted, NewOwner \in Pids \cup {NULL} :
         /\ Alive(t)
         /\ NewOwner # ProcessOf(t)
         /\ \A p \in Pids : GDIHandleCount[p] \in 0..NumSlots
         /\ GDIOBJ_SetOwnership(t, h, NewOwner)
    \/ \E t \in Makers : SetOwnership_Lock(t)
    \/ \E t \in Makers : SetOwnership_Locked(t)
    \/ \E t \in Makers : Alive(t) /\ GDI_CleanupForProcess(t)
    \/ \E t \in Makers : DeleteHandles_Entry(t)
    \/ \E t \in Makers : DeleteHandles_Next(t)
    \/ \E t \in Makers : GdiReturn(t)
SpecCleanup == Init /\ [][NextCleanup]_vars

\* the place of an object in the order of GDI_CleanupForProcess, by the base
\* type its handle carries: DC, BRUSH (pens are brushes by their base type),
\* BITMAP, and the rest
CleanupClass(h) ==
    LET BaseType == GDI_OBJECT_GET_TYPE_INDEX(GDI_HANDLE_GET_TYPE(h))
    IN  CASE BaseType = GDI_OBJECT_GET_TYPE_INDEX(GDI_OBJECT_TYPE_DC) -> 1
          [] BaseType = GDI_OBJECT_GET_TYPE_INDEX(GDI_OBJECT_TYPE_BRUSH) -> 2
          [] BaseType = GDI_OBJECT_GET_TYPE_INDEX(GDI_OBJECT_TYPE_BITMAP) -> 3
          [] OTHER -> LastPass

\* the objects destroyed by GDI_CleanupForProcess, in the order it destroyed them
Swept == SelectSeq(destroyed, LAMBDA d : d.pass > 0)

\* thread t takes the step, in its cleanup for its process
CleanupStep(t) == gloc[t].op = "cleanup" /\ (gpc'[t] # gpc[t] \/ gloc'[t] # gloc[t])

\* C20: in cleanup_for_process(P) every DC of P is freed before any BRUSH of
\* P, every BRUSH before any BITMAP, and every BITMAP before any object of
\* another type; the objects of other processes and those of nobody (global)
\* are never freed by it, nor they or their entries changed (an entry of P
\* that the cleanup has given up is nobody's while it goes to the free list).
C20_CleanupOrder ==
    [][/\ \A j, k \in 1..Len(Swept') :
            j < k => CleanupClass(Swept'[j].hHmgr) <= CleanupClass(Swept'[k].hHmgr)
       /\ \A t \in Makers :
            CleanupStep(t) =>
               /\ \A i \in Slots :
                    WithoutLock(Entries[i].ProcessId) # ProcessOf(t)
                    /\ ~ (gpc[t] \in GivenUp
                          /\ i = GDI_HANDLE_GET_INDEX(gloc[t].hObj)) =>
                       /\ Entries'[i] = Entries[i]
                       /\ IsBody(Entries[i].KernelData) =>
                             Objects'[Entries[i].KernelData[2]]
                                = Objects[Entries[i].KernelData[2]]
               /\ \A p \in Pids \ {ProcessOf(t)} : GDIHandleCount'[p] = GDIHandleCount[p]
               /\ gpc[t] = "free_locked" /\ gpc'[t] = "free_push" =>
                    Entries[GDI_HANDLE_GET_INDEX(gloc[t].hObj)].ProcessId
                       = WithLock(ProcessOf(t))]_vars

\* the cleanup is over: it destroyed two objects of the process, the one in
\* the later entry first because its type comes first, and left the object
\* of nobody or of another process alone
C20_LaterEntryFreedFirst ==
    \E t \in Makers :
        /\ gpc[t] = "done" /\ gloc[t].op = "cleanup"
        /\ Len(Swept) >= 2
        /\ GDI_HANDLE_GET_INDEX(Swept[1].hHmgr) > GDI_HANDLE_GET_INDEX(Swept[2].hHmgr)
        /\ CleanupClass(Swept[1].hHmgr) < CleanupClass(Swept[2].hHmgr)

\* ---- C21
\* the cleanup for the process of thread t has returned
CleanupReturned(t) == gpc[t] = "done" /\ gloc[t].op = "cleanup"

\* the entries whose owner, without the lock bit, is process p
EntriesOf(p) == {i \in Slots : WithoutLock(Entries[i].ProcessId) = p}

\* C21: when cleanup_for_process(P) returns, P's handle count is zero and no
\* entry of the table has owner P, whatever objects P had made or been given,
\* those that are share-locked or exclusively locked at the time included.
C21_CleanupLeavesNothing ==
    \A t \in Makers :
        CleanupReturned(t) =>
            /\ GDIHandleCount[ProcessOf(t)] = 0
            /\ EntriesOf(ProcessOf(t)) = {}

\* ---- C22
\* the handle with the stock bit set
StockHandle(h) == [h EXCEPT !.upper = @ + GDI_ENTRY_STOCK_MASK]

\* the value of Entry->Type composed from a handle: its upper half, and the
\* base type above it
TypeOfHandle(h) ==
    (GDI_HANDLE_GET_UPPER(h) % 32) * TwoTo16 + GDI_HANDLE_GET_UPPER(h)

\* thread t's convert_to_stock returns TRUE in this step
ConvertSucceeds(t) ==
    gpc[t] = "stock_locked" /\ gpc'[t] = "done" /\ gloc'[t].result = TRUE

\* C22: a successful convert_to_stock on a handle of the calling process sets
\* the stock bit in the entry's type and leaves the type's other bits (type,
\* base type, flags, reuse counter) as they were, rewrites the caller's handle
\* and the body's handle to the same value with the stock bit set, makes the
\* entry's owner 0 with the lock bit clear, and decrements the previous
\* owner's handle count by exactly one; the type is changed only if the
\* entry's type equals the value composed from the handle.
C22_ConvertToStockEffects ==
    [][\A t \in GdiThreads :
         LET h == gloc[t].hObj
             i == GDI_HANDLE_GET_INDEX(h)
         IN  /\ gloc[t].op = "stock" /\ gpc'[t] # gpc[t] /\ Entries'[i].Type # Entries[i].Type =>
                  /\ Entries[i].Type = TypeOfHandle(h)
                  /\ gpc[t] = "stock_locked"
             /\ ConvertSucceeds(t) =>
                  /\ ~ GDI_HANDLE_IS_STOCKOBJ(h)
                  /\ gloc[t].PrevProcId = ProcessOf(t)
                  /\ Entries[i].Type = TypeOfHandle(h)
                  /\ Entries'[i].Type = Entries[i].Type + GDI_ENTRY_STOCK_MASK
                  /\ EntryBaseType(Entries'[i].Type) = EntryBaseType(Entries[i].Type)
                  /\ EntryReuseBits(Entries'[i].Type) = EntryReuseBits(Entries[i].Type)
                  /\ gloc'[t].hObj = StockHandle(h)
                  /\ GDI_HANDLE_IS_STOCKOBJ(gloc'[t].hObj)
                  /\ IsBody(Entries'[i].KernelData)
                  /\ Objects'[Entries'[i].KernelData[2]].hHmgr = gloc'[t].hObj
                  /\ Entries'[i].ProcessId = GDI_GLOBAL_PROCESS
                  /\ GDIHandleCount' = [GDIHandleCount EXCEPT ![ProcessOf(t)] = @ - 1]]_vars

\* a convert_to_stock has returned TRUE for an object in an entry that was
\* used before: the entry's type carries a reuse count and the stock bit
C22_ConvertedInReusedEntry ==
    \E t \in GdiThreads :
        /\ gpc[t] = "done" /\ gloc[t].op = "stock" /\ gloc[t].result = TRUE
        /\ LET Type == Entries[GDI_HANDLE_GET_INDEX(gloc[t].hObj)].Type
           IN  /\ GDI_ENTRY_GET_REUSECNT(Type) > 0
               /\ Type = TypeOfHandle(gloc[t].hObj)

\* ---- C23
\* the object that handle h names, with or without the stock bit, has been
\* converted: its entry carries the type of the stock handle and is nobody's,
\* and its body carries the stock handle
AlreadyConverted(h) ==
    LET i == GDI_HANDLE_GET_INDEX(h)
        s == IF GDI_HANDLE_IS_STOCKOBJ(h) THEN h ELSE StockHandle(h)
    IN  /\ Entries[i].Type = TypeOfHandle(s)
        /\ WithoutLock(Entries[i].ProcessId) = GDI_GLOBAL_PROCESS
        /\ IsBody(Entries[i].KernelData)
        /\ Objects[Entries[i].KernelData[2]].hHmgr = s

\* thread t takes a step of convert_to_stock, the call included
ConvertStep(t) ==
    gloc'[t].op = "stock" /\ gpc'[t] # gpc[t] /\ gpc[t] # "done"

\* C23: convert_to_stock is idempotent: applied to an object that was already
\* converted, through the rewritten handle or through the original one, it
\* leaves the entry's type, owner and lock bit, the body's handle, the
\* caller's handle and every process's handle count as they were.
C23_ConvertToStockIdempotent ==
    [][\A t \in GdiThreads :
         ConvertStep(t) /\ AlreadyConverted(gloc'[t].hObj) =>
            /\ Entries' = Entries
            /\ Objects' = Objects
            /\ GDIHandleCount' = GDIHandleCount
            /\ gpc[t] # "idle" => gloc'[t].hObj = gloc[t].hObj
            /\ gpc'[t] \in {"done", "stock_lock"}
            /\ gpc'[t] = "done" => gloc'[t].result = FALSE]_vars

\* a second convert_to_stock, through the original handle, has returned for
\* an object that the first one converted
C23_ConvertedTwiceByOriginalHandle ==
    \E t \in GdiThreads :
        /\ gpc[t] = "done" /\ gloc[t].op = "stock"
        /\ ~ GDI_HANDLE_IS_STOCKOBJ(gloc[t].hObj)
        /\ AlreadyConverted(gloc[t].hObj)
        /\ StockHandle(gloc[t].hObj) \in minted

\* ---- C24
\* no operation is in progress
Quiescent == \A t \in GdiThreads : gpc[t] \in {"idle", "exited"}

\* the entries in use (base type not zero) whose owner is process p
LiveEntriesOf(p) ==
    {i \in Slots : EntryBaseType(Entries[i].Type) # 0 /\ WithoutLock(Entries[i].ProcessId) = p}

\* the counts c after an object went from owner A to owner B (0: nobody)
CountsMoved(c, A, B) ==
    LET c1 == IF A # 0 THEN [c EXCEPT ![A] = @ - 1] ELSE c
    IN  IF B # 0 THEN [c1 EXCEPT ![B] = @ + 1] ELSE c1

\* thread t's set_ownership gives the entry its new owner in this step
OwnershipSet(t) ==
    /\ gpc[t] = "own_locked" /\ gpc'[t] \notin {"own_locked", "own_lock"}
    /\ gloc[t].op = "set_ownership"
    /\ halt' = halt
    /\ EntryBaseType(Entries[GDI_HANDLE_GET_INDEX(gloc[t].ObjectHandle)].Type) # 0

\* C24: in every quiescent state each process's handle count is the number of
\* entries in use that it owns, after any sequence of alloc, free,
\* set_ownership, copy_ownership and convert_to_stock; a set_ownership from
\* owner A to owner B takes one from A's count and adds one to B's (only the
\* one when B is nobody, only the other when A is nobody).
C24_CountsMatchOwnedEntries ==
    [][/\ halt'[1] = "run" /\ Quiescent' =>
            \A p \in Pids : GDIHandleCount'[p] = Cardinality(LiveEntriesOf(p)')
       /\ \A t \in GdiThreads :
            OwnershipSet(t) =>
               LET i == GDI_HANDLE_GET_INDEX(gloc[t].ObjectHandle)
               IN  /\ GDIHandleCount' = CountsMoved(GDIHandleCount,
                                                    WithoutLock(Entries[i].ProcessId),
                                                    gloc[t].NewOwner)
                   /\ Entries'[i].ProcessId = gloc[t].NewOwner]_vars

\* ---- C25
\* ---- the errors of callers: a thread requests, releases and marks dirty
\* the regions of an open file, with and without a VACB there; a thread makes
\* objects, converts them to stock objects and frees every handle it ever had
\* with every type expected
FreeTypes == {GDI_OBJECT_TYPE_DONTCARE, GDI_OBJECT_TYPE_PALETTE, GDI_OBJECT_TYPE_BRUSH}
NextErrors ==
    \/ \E o \in AlignedOffsets : CcRosRequestVacb(1, 1, o)
    \/ CreateVacb_Alloc(1)
    \/ CreateVacb_Insert(1)
    \/ CreateVacb_Ref(1)
    \/ CcRosReleaseVacb(1, TRUE, FALSE, FALSE)
    \/ \E o \in AlignedOffsets : CcRosMarkDirtyFile(1, 1, o)
    \/ ReleaseVacb_Mark(1)
    \/ Return(1)
    \/ \E t \in Recyclers :
         /\ Cardinality(minted) < MaxOwned
         /\ GDIOBJ_AllocObjWithHandle(t, GDI_OBJECT_TYPE_PALETTE)
    \/ \E t \in Recyclers : PopFreeEntry_Read(t)
    \/ \E t \in Recyclers : PopFreeEntry_Lock(t)
    \/ \E t \in Recyclers : PopFreeEntry_Swap(t)
    \/ \E t \in Recyclers : AllocObjWithHandle_Lock(t)
    \/ \E t \in Recyclers : AllocObjWithHandle_Publish(t)
    \/ \E t \in Recyclers : AllocObjWithHandle_Count(t)
    \/ \E t \in Recyclers, b \in BodyIds : GDIOBJ_UnlockObjByPtr(t, b)
    \/ \E t \in Recyclers, h \in minted, ExpectedType \in FreeTypes :
         GDIOBJ_FreeObjByHandle(t, h, ExpectedType)
    \/ \E t \in Recyclers : FreeObjByHandle_Lock(t)
    \/ \E t \in Recyclers : FreeObjByHandle_Locked(t)
    \/ \E t \in Recyclers : FreeObjByHandle_Push(t)
    \/ \E t \in Recyclers : FreeObjByHandle_Cleanup(t)
    \/ \E t \in Recyclers, h \in minted : GDIOBJ_ConvertToStockObj(t, h)
    \/ \E t \in Recyclers : ConvertToStockObj_Lock(t)
    \/ \E t \in Recyclers : ConvertToStockObj_Locked(t)
    \/ \E t \in Recyclers : GdiReturn(t)
SpecErrors == InitOpened /\ [][NextErrors]_vars

\* thread t's free_by_handle returns to its caller in this step
FreeReturns(t) == gpc'[t] = "done" /\ gpc[t] # "done" /\ gloc'[t].op = "free"

\* handle h was freed before
FreedBefore(h) == \E k \in 1..Len(destroyed) : destroyed[k].hHmgr = h

\* mark_dirty is called for an offset of file f that no VACB covers
MarkDirtyWithoutVacb(t, f, o) ==
    CcRosMarkDirtyFile(t, f, o) /\ FoundVacb(Now, SectionPtr[f], o) = NULL

\* C25: each of these errors of a caller ends in the bug check and does not
\* return: mark_dirty on an offset that no VACB covers, free_by_handle on a
\* stock object's handle, free_by_handle on a handle that was freed before,
\* and free_by_handle (not silent) on a handle whose type is not the expected
\* one.
C25_CallerErrorsBugCheck ==
    [][/\ \A t \in Threads, f \in Files, o \in AlignedOffsets :
            MarkDirtyWithoutVacb(t, f, o) => halt'[1] = "bugcheck"
       /\ \A t \in GdiThreads :
            FreeReturns(t) =>
               LET h == gloc'[t].hObj
                   ExpectedType == gloc'[t].ExpectedType
               IN  /\ ~ GDI_HANDLE_IS_STOCKOBJ(h)
                   /\ ~ FreedBefore(h)
                   /\ ExpectedType = GDI_OBJECT_TYPE_DONTCARE
                        \/ GDI_HANDLE_GET_TYPE(h) = ExpectedType]_vars

\* ---- C26
\* C26: from the moment request_region returns a VACB to a caller until that
\* caller's release_region, the VACB is not destroyed, stays on its map's
\* list of VACBs and has a reference count of at least 2, whatever trim_cache,
\* flush_dirty, flush_cache and other requests and releases do meanwhile on a
\* file that stays open; a trim_cache that runs between the insertion of a new
\* VACB and the creator's reference does not evict it.
C26_HeldVacbStaysAlive ==
    \A t \in Threads :
        held[t] # NULL =>
            /\ held[t] \in VacbIds
            /\ vacb[held[t]].state = "live"
            /\ OnMapList(held[t])
            /\ vacb[held[t]].ReferenceCount >= 2

\* ---- C27
\* the assertions of CcRosTrimCache: the three where it stages a VACB, and the
\* one at the last decrement of a staged VACB
TrimAssertions ==
    {"ASSERT(!current->Dirty)", "ASSERT(!current->MappedCount)", "ASSERT(Refs == 1)",
     "ASSERT(Refs == 0)"}

\* C27: trim_cache stages a VACB only if, its own reference dropped, the
\* reference count is exactly 1, the VACB is not dirty and its mapped count is
\* 0 (the three assertions there hold in every interleaving with requests,
\* releases, flushes and another trim_cache, also after the locks were dropped
\* for the page-out), and the last decrement of every staged VACB, outside the
\* locks, gives exactly 0.
C27_TrimAssertionsHold == halt[2] \notin TrimAssertions

\* ---- C28
\* VACB pointer v names a body that is allocated and on the LRU list
LinkedOnLru(v) == v \in VacbIds /\ vacb[v].state = "live" /\ InSeq(v, VacbLruListHead)

\* C28: every VACB that trim_cache touches in its walk of the LRU list is, at
\* the moment it is touched, still allocated and still on the LRU list: the
\* VACB it paged out, and the successor whose pointer it saved before it
\* dropped view_lock and the map's lock, whatever delete_file_cache, releases
\* and another trim_cache did meanwhile.
C28_TrimTouchesLinkedVacbs ==
    \A t \in Threads :
        pc[t] = "trim_pageout" =>
            /\ LinkedOnLru(loc[t].current)
            /\ loc[t].current_entry # NULL => LinkedOnLru(loc[t].current_entry)

\* ------------------------------------------------------------ C29
\* The thread of the lazy writer and of the memory manager's trim; the other
\* threads are the file system's
LazyWriter == NumThreads
Dirtiers == Threads \ {LazyWriter}

\* The file system's threads dirty the regions of one open file while the lazy
\* writer and the write throttle flush them and the memory manager trims the
\* cache.  No region is mapped, so the trim has nothing to page out: its first
\* pass goes on into CcRosFlushDirtyPages, and the walk's end into the final
\* loop of CcRosTrimCache
NextFlush ==
    \/ \E t \in Dirtiers, o \in AlignedOffsets : CcRosRequestVacb(t, 1, o)
    \/ \E t \in Dirtiers : CreateVacb_Alloc(t)
    \/ \E t \in Dirtiers : CreateVacb_Insert(t)
    \/ \E t \in Dirtiers : CreateVacb_Ref(t)
    \/ \E t \in Dirtiers, Dirty \in BOOLEAN : CcRosReleaseVacb(t, TRUE, Dirty, FALSE)
    \/ \E t \in Dirtiers : ReleaseVacb_Mark(t)
    \/ \E Target \in Targets, CalledFromLazy \in BOOLEAN :
         CcRosFlushDirtyPages(LazyWriter, Target, CalledFromLazy)
    \/ CcRosTrimCache(LazyWriter, PagesPerVacb)
    \/ FlushDirty_Step(LazyWriter)
    \/ \E t \in Threads : Return(t)

SpecFlush == InitOpened /\ [][NextFlush]_vars

\* A thread inside CcRosFlushDirtyPages is scheduled again: it waits for
\* ViewLock (a guarded mutex, lines 198 and 249) and for the write only
SpecFlushFair == SpecFlush /\ WF_vars(FlushDirty_Step(LazyWriter))

\* The thread is inside CcRosFlushDirtyPages
InFlushDirty(t) == Running /\ pc[t] \in {"fd_walk", "fd_write", "fd_resume"}

\* The VACB is on the dirty list
OnDirtyList(v) == \E k \in DOMAIN DirtyVacbListHead : DirtyVacbListHead[k] = v

RET == NULL
Ins(op, arg, next) == [op |-> op, arg |-> arg, next |-> next]
Fn(entry, code) == [entry |-> entry, code |-> code]

\* CcRosFlushDirtyPages: the loop releases ViewLock around CcRosFlushVacb; the
\* iterations that 'continue' make no call
CcRosFlushDirtyPages_Calls ==
    Fn(198, 198 :> Ins("acq_view", "", {242, 280})
         @@ 242 :> Ins("rel_view", "", {244})
         @@ 244 :> Ins("call", "CcRosFlushVacb", {249})
         @@ 249 :> Ins("acq_view", "", {242, 280})
         @@ 280 :> Ins("rel_view", "", {RET}))

\* CcRosTrimCache: the loop over the LRU list, the page-out outside both locks,
\* the flush of the first pass and the retry
CcRosTrimCache_Calls ==
    Fn(317, 317 :> Ins("acq_view", "", {329, 378})
         @@ 329 :> Ins("acq_map", "", {338, 375})
         @@ 338 :> Ins("rel_map", "", {339})
         @@ 339 :> Ins("rel_view", "", {346})
         @@ 346 :> Ins("pageout", "", {346, 350})
         @@ 350 :> Ins("acq_view", "", {351})
         @@ 351 :> Ins("acq_map", "", {375})
         @@ 375 :> Ins("rel_map", "", {329, 378})
         @@ 378 :> Ins("rel_view", "", {384, RET})
         @@ 384 :> Ins("call", "CcRosFlushDirtyPages", {317, RET}))

\* CcRosDeleteFileCache if it kept the caller's ViewLock while CcFlushCache
\* runs
CcRosDeleteFileCacheKeepsViewLock ==
    Fn(1079, 1079 :> Ins("call", "CcFlushCache", {1093, RET})
          @@ 1093 :> Ins("acq_map", "", {1097, 1122})
          @@ 1097 :> Ins("rel_map", "", {1104, 1117})
          @@ 1104 :> Ins("acq_map", "", {1105})
          @@ 1105 :> Ins("call", "CcRosUnmarkDirtyVacb_FALSE", {1106})
          @@ 1106 :> Ins("rel_map", "", {1117})
          @@ 1117 :> Ins("acq_map", "", {1097, 1122})
          @@ 1122 :> Ins("rel_map", "", {1124})
          @@ 1124 :> Ins("rel_view", "", {1168})
          @@ 1168 :> Ins("acq_view", "", {RET}))

\* CcRosDeleteFileCache: the caller's ViewLock is given up for CcFlushCache and
\* for the final loop, and taken back before the return
CcRosDeleteFileCache_Calls ==
    Fn(1077, 1077 :> Ins("rel_view", "", {1079})
          @@ 1079 :> Ins("call", "CcFlushCache", {1081})
          @@ 1081 :> Ins("acq_view", "", {1093, RET})
          @@ 1093 :> Ins("acq_map", "", {1097, 1122})
          @@ 1097 :> Ins("rel_map", "", {1104, 1117})
          @@ 1104 :> Ins("acq_map", "", {1105})
          @@ 1105 :> Ins("call", "CcRosUnmarkDirtyVacb_FALSE", {1106})
          @@ 1106 :> Ins("rel_map", "", {1117})
          @@ 1117 :> Ins("acq_map", "", {1097, 1122})
          @@ 1122 :> Ins("rel_map", "", {1124})
          @@ 1124 :> Ins("rel_view", "", {1168})
          @@ 1168 :> Ins("acq_view", "", {RET}))

\* The functions of view.c that take a lock, write, page out, or call one that
\* does.  CcRosUnmarkDirtyVacb is listed once per value of LockViews.
ViewCalls ==
    [CcRosTraceCacheMap |->
       Fn(129, 129 :> Ins("skip", "", {138, RET})
            @@ 138 :> Ins("acq_view", "", {139})
            @@ 139 :> Ins("acq_map", "", {150})
            @@ 150 :> Ins("rel_map", "", {151})
            @@ 151 :> Ins("rel_view", "", {RET})),
     CcRosFlushVacb |->
       Fn(171, 171 :> Ins("write", "", {174, RET})
            @@ 174 :> Ins("call", "CcRosUnmarkDirtyVacb_TRUE", {RET})),
     CcRosFlushDirtyPages |-> CcRosFlushDirtyPages_Calls,
     CcRosTrimCache |-> CcRosTrimCache_Calls,
     CcRosReleaseVacb |->
       Fn(434, 434 :> Ins("skip", "", {436, RET})
            @@ 436 :> Ins("call", "CcRosMarkDirtyVacb", {RET})),
     CcRosLookupVacb |->
       Fn(469, 469 :> Ins("acq_view", "", {470})
            @@ 470 :> Ins("acq_map", "", {483, 492})
            @@ 483 :> Ins("rel_map", "", {484})
            @@ 484 :> Ins("rel_view", "", {RET})
            @@ 492 :> Ins("rel_map", "", {493})
            @@ 493 :> Ins("rel_view", "", {RET})),
     CcRosMarkDirtyVacb |->
       Fn(508, 508 :> Ins("acq_view", "", {509})
            @@ 509 :> Ins("acq_map", "", {524})
            @@ 524 :> Ins("rel_map", "", {525})
            @@ 525 :> Ins("rel_view", "", {RET})),
     CcRosUnmarkDirtyVacb_TRUE |->
       Fn(549, 549 :> Ins("acq_view", "", {550})
            @@ 550 :> Ins("acq_map", "", {565})
            @@ 565 :> Ins("rel_map", "", {566})
            @@ 566 :> Ins("rel_view", "", {RET})),
     CcRosUnmarkDirtyVacb_FALSE |->
       Fn(553, 553 :> Ins("skip", "", {RET})),
     CcRosMarkDirtyFile |->
       Fn(583, 583 :> Ins("call", "CcRosLookupVacb", {589, RET})
            @@ 589 :> Ins("call", "CcRosReleaseVacb", {RET})),
     CcRosUnmapVacb |->
       Fn(612, 612 :> Ins("call", "CcRosLookupVacb", {624, RET})
            @@ 624 :> Ins("call", "CcRosReleaseVacb", {RET})),
     CcRosCreateVacb |->
       Fn(714, 714 :> Ins("skip", "", {750, RET})
            @@ 750 :> Ins("acq_view", "", {758})
            @@ 758 :> Ins("acq_map", "", {771, 809})
            @@ 771 :> Ins("rel_map", "", {781})
            @@ 781 :> Ins("rel_view", "", {RET})
            @@ 809 :> Ins("rel_map", "", {811})
            @@ 811 :> Ins("rel_view", "", {RET})),
     CcRosGetVacb |->
       Fn(859, 859 :> Ins("call", "CcRosLookupVacb", {865, 874})
            @@ 865 :> Ins("call", "CcRosCreateVacb", {874, RET})
            @@ 874 :> Ins("acq_view", "", {880})
            @@ 880 :> Ins("rel_view", "", {RET})),
     CcRosRequestVacb |->
       Fn(919, 919 :> Ins("call", "CcRosGetVacb", {RET})),
     CcFlushCache |->
       Fn(1009, 1009 :> Ins("skip", "", {1032, RET})
             @@ 1032 :> Ins("call", "CcRosLookupVacb", {1032, 1037, 1044, RET})
             @@ 1037 :> Ins("call", "CcRosFlushVacb", {1044})
             @@ 1044 :> Ins("call", "CcRosReleaseVacb", {1032, RET})),
     CcRosDeleteFileCache |-> CcRosDeleteFileCache_Calls,
     CcRosReferenceCache |->
       Fn(1179, 1179 :> Ins("acq_view", "", {1184})
             @@ 1184 :> Ins("rel_view", "", {RET})),
     CcRosRemoveIfClosed |->
       Fn(1194, 1194 :> Ins("acq_view", "", {1198, 1200})
             @@ 1198 :> Ins("call", "CcRosDeleteFileCache", {1200})
             @@ 1200 :> Ins("rel_view", "", {RET})),
     CcRosDereferenceCache |->
       Fn(1210, 1210 :> Ins("acq_view", "", {1219, 1222})
             @@ 1219 :> Ins("call", "CcRosDeleteFileCache", {1222})
             @@ 1222 :> Ins("rel_view", "", {RET})),
     CcRosReleaseFileCache |->
       Fn(1238, 1238 :> Ins("acq_view", "", {1257, 1282})
             @@ 1257 :> Ins("acq_map", "", {1259})
             @@ 1259 :> Ins("rel_map", "", {1277, 1282})
             @@ 1277 :> Ins("call", "CcRosDeleteFileCache", {1282})
             @@ 1282 :> Ins("rel_view", "", {RET})),
     CcRosInitializeFileCache |->
       Fn(1307, 1307 :> Ins("acq_view", "", {1314, 1369, 1381, 1388})
             @@ 1314 :> Ins("rel_view", "", {RET})
             @@ 1369 :> Ins("rel_view", "", {RET})
             @@ 1381 :> Ins("acq_map", "", {1383})
             @@ 1383 :> Ins("rel_map", "", {1388})
             @@ 1388 :> Ins("rel_view", "", {RET}))]

\* The functions other files and other parts of the kernel call; the rest is
\* reached through them (CcRosDeleteFileCache only with ViewLock held)
EntryPoints ==
    {"CcRosTraceCacheMap", "CcRosFlushDirtyPages", "CcRosTrimCache", "CcRosReleaseVacb",
     "CcRosMarkDirtyFile", "CcRosUnmapVacb", "CcRosRequestVacb", "CcFlushCache",
     "CcRosReferenceCache", "CcRosRemoveIfClosed", "CcRosDereferenceCache",
     "CcRosReleaseFileCache", "CcRosInitializeFileCache"}

\* A thread's innermost call, and the call its line stands for
Frame(fn, at) == [fn |-> fn, at |-> at]
Inside(t) == frames[t] # <<>>
Top(t) == frames[t][Len(frames[t])]
Returning(t) == Inside(t) /\ Top(t).at = RET
Current(t) == ViewCalls[Top(t).fn].code[Top(t).at]
AtCall(t, op) == Inside(t) /\ ~ Returning(t) /\ Current(t).op = op

\* The locks a thread owns
HoldsViewLock(t) == ViewLock = t
MapLocksOf(t) == {m \in MapIds : CacheMapLock[m] = t}

\* The thread goes on to one of the lines that can come next
GoOn(t) ==
    \E n \in Current(t).next :
      frames' = [frames EXCEPT ![t][Len(frames[t])].at = n]

\* Another part of the kernel calls a function of view.c
Enter(t, fn) ==
    /\ ~ Inside(t)
    /\ frames' = [frames EXCEPT ![t] = <<Frame(fn, ViewCalls[fn].entry)>>]
    /\ UNCHANGED <<ViewLock, CacheMapLock, viewVars, gdiVars, halt>>

\* KeAcquireGuardedMutex(&ViewLock): the thread waits until nobody owns it
KeAcquireGuardedMutex(t) ==
    /\ AtCall(t, "acq_view")
    /\ ViewLock = NULL
    /\ ViewLock' = t
    /\ GoOn(t)
    /\ UNCHANGED <<CacheMapLock, viewVars, gdiVars, halt>>

\* KeReleaseGuardedMutex(&ViewLock)
KeReleaseGuardedMutex(t) ==
    /\ AtCall(t, "rel_view")
    /\ ViewLock' = IF ViewLock = t THEN NULL ELSE ViewLock
    /\ GoOn(t)
    /\ UNCHANGED <<CacheMapLock, viewVars, gdiVars, halt>>

\* KeAcquireSpinLock(&SharedCacheMap->CacheMapLock): the lock of map m, which
\* the thread spins on until nobody owns it
KeAcquireSpinLock(t, m) ==
    /\ AtCall(t, "acq_map")
    /\ CacheMapLock[m] = NULL
    /\ CacheMapLock' = [CacheMapLock EXCEPT ![m] = t]
    /\ GoOn(t)
    /\ UNCHANGED <<ViewLock, viewVars, gdiVars, halt>>

\* KeReleaseSpinLock(&SharedCacheMap->CacheMapLock): of the map whose lock the
\* thread took
KeReleaseSpinLock(t) ==
    /\ AtCall(t, "rel_map")
    /\ CacheMapLock' = [m \in MapIds |-> IF CacheMapLock[m] = t THEN NULL
                                         ELSE CacheMapLock[m]]
    /\ GoOn(t)
    /\ UNCHANGED <<ViewLock, viewVars, gdiVars, halt>>

\* CcWriteVirtualAddress (write_region), MmPageOutPhysicalAddress, and the
\* statements that decide where a function goes on: no lock changes hands
Statement(t) ==
    /\ \/ AtCall(t, "write") \/ AtCall(t, "pageout") \/ AtCall(t, "skip")
    /\ GoOn(t)
    /\ UNCHANGED <<ViewLock, CacheMapLock, viewVars, gdiVars, halt>>

\* A function of view.c calls another one
Call(t) ==
    /\ AtCall(t, "call")
    /\ frames' = [frames EXCEPT
                    ![t] = Append(@, Frame(Current(t).arg, ViewCalls[Current(t).arg].entry))]
    /\ UNCHANGED <<ViewLock, CacheMapLock, viewVars, gdiVars, halt>>

\* The function returns: its caller goes on after the call
Leave(t) ==
    /\ Returning(t)
    /\ LET rest == SubSeq(frames[t], 1, Len(frames[t]) - 1)
       IN  IF rest = <<>> THEN frames' = [frames EXCEPT ![t] = <<>>]
           ELSE LET caller == rest[Len(rest)]
                IN  \E n \in ViewCalls[caller.fn].code[caller.at].next :
                      frames' = [frames EXCEPT
                                   ![t] = [rest EXCEPT ![Len(rest)].at = n]]
    /\ UNCHANGED <<ViewLock, CacheMapLock, viewVars, gdiVars, halt>>

\* Every thread calls every entry point, one lock call at a time
NextLocks ==
    \/ \E t \in Threads, fn \in EntryPoints : Enter(t, fn)
    \/ \E t \in Threads : KeAcquireGuardedMutex(t)
    \/ \E t \in Threads : KeReleaseGuardedMutex(t)
    \/ \E t \in Threads, m \in MapIds : KeAcquireSpinLock(t, m)
    \/ \E t \in Threads : KeReleaseSpinLock(t)
    \/ \E t \in Threads : Statement(t)
    \/ \E t \in Threads : Call(t)
    \/ \E t \in Threads : Leave(t)

SpecLocks == Init /\ [][NextLocks]_vars

\* The thread has just entered the function, or is about to return from it
Entering(t, fn) == Inside(t) /\ Top(t).fn = fn /\ Top(t).at = ViewCalls[fn].entry
Leaving(t, fn) == Returning(t) /\ Top(t).fn = fn

\* The thread is inside a call of the function, however deep
Within(t, fn) == \E k \in DOMAIN frames[t] : frames[t][k].fn = fn

\* C30: the lock discipline of the view cache: a thread about to take
\* view_lock owns neither a map.lock nor view_lock itself; a thread in
\* flush_vacb's write_region or in trim_cache's page-out owns neither
\* view_lock nor a map.lock; and a thread that enters delete_file_cache or is
\* about to return from it owns view_lock
C30_LockDiscipline ==
    \A t \in Threads :
      /\ AtCall(t, "acq_view") => MapLocksOf(t) = {} /\ ~ HoldsViewLock(t)
      /\ AtCall(t, "write") \/ AtCall(t, "pageout") =>
           ~ HoldsViewLock(t) /\ MapLocksOf(t) = {}
      /\ Entering(t, "CcRosDeleteFileCache") \/ Leaving(t, "CcRosDeleteFileCache") =>
           HoldsViewLock(t)

\* A thread is in write_region for CcFlushCache inside CcRosDeleteFileCache,
\* which CcRosReleaseFileCache called with ViewLock held, and owns no lock,
\* while another thread owns ViewLock and a map's lock
C30_WriteInsideDeleteUnlocked ==
    \E t, u \in Threads :
      /\ t # u
      /\ AtCall(t, "write") /\ Within(t, "CcRosDeleteFileCache")
      /\ Within(t, "CcRosReleaseFileCache")
      /\ ~ HoldsViewLock(t) /\ MapLocksOf(t) = {}
      /\ HoldsViewLock(u) /\ MapLocksOf(u) # {}

\* ------------------------------------------------------------ C31
\* The targets the accounting of CcRosFlushDirtyPages is tried with, in pages
AccountTargets ==
    {0, 1, PagesPerVacb - 1, PagesPerVacb, PagesPerVacb + 1, 2 * PagesPerVacb,
     2 * PagesPerVacb + 1, 3 * PagesPerVacb}

\* CcRosFlushDirtyPages at the end of an iteration that wrote a VACB, for every
\* target and every status of the write: *Count is 0 since line 195
InitAccount ==
    /\ vacb = [v \in VacbIds |-> FreedVacb]
    /\ maps = [m \in MapIds |-> FreedMap]
    /\ DirtyVacbListHead = <<>>
    /\ VacbLruListHead = <<>>
    /\ CcTotalDirtyPages = 0
    /\ CcCleanSharedCacheMapList = <<>>
    /\ SectionPtr = [f \in Files |-> NULL]
    /\ PrivateCacheMap = [t \in Threads |-> [f \in Files |-> NoPrivateMap]]
    /\ mmRefs = [f \in Files |-> 0]
    /\ \E T \in AccountTargets, Status \in Statuses :
         /\ ULONG_GT(T, 0)
         /\ loc = [t \in Threads |->
                     IF t = 1
                     THEN [NoLoc EXCEPT !.op = "flush_dirty", !.Target = T,
                                        !.Status = Status]
                     ELSE NoLoc]
    /\ pc = [t \in Threads |-> IF t = 1 THEN "fd_account" ELSE "idle"]
    /\ held = [t \in Threads |-> NULL]
    /\ halt = <<"run", "">>
    /\ GdiInit
    /\ LockInit

\* Lines 252 to 275: the pages of the VACB written are counted
FlushDirty_Account(t) ==
    /\ Running /\ pc[t] = "fd_account"
    /\ loc' = [loc EXCEPT ![t] = FlushDirtyAccount(loc[t])]
    /\ pc' = [pc EXCEPT ![t] = "fd_accounted"]
    /\ UNCHANGED <<vacb, maps, DirtyVacbListHead, VacbLruListHead, CcTotalDirtyPages,
                   CcCleanSharedCacheMapList, SectionPtr, PrivateCacheMap, mmRefs, held,
                   halt, gdiVars, lockVars>>

\* Line 206: the loop goes on to another VACB while Target > 0, and the write
\* of that VACB comes to Status
FlushDirty_Again(t, Status) ==
    /\ Running /\ pc[t] = "fd_accounted"
    /\ ULONG_GT(loc[t].Target, 0)
    /\ loc' = [loc EXCEPT ![t].Status = Status]
    /\ pc' = [pc EXCEPT ![t] = "fd_account"]
    /\ UNCHANGED <<vacb, maps, DirtyVacbListHead, VacbLruListHead, CcTotalDirtyPages,
                   CcCleanSharedCacheMapList, SectionPtr, PrivateCacheMap, mmRefs, held,
                   halt, gdiVars, lockVars>>

\* Lines 280 to 284: the loop has ended
FlushDirty_Leave(t) ==
    /\ Running /\ pc[t] = "fd_accounted"
    /\ pc' = [pc EXCEPT ![t] = "done"]
    /\ UNCHANGED <<vacb, maps, DirtyVacbListHead, VacbLruListHead, CcTotalDirtyPages,
                   CcCleanSharedCacheMapList, SectionPtr, PrivateCacheMap, mmRefs, loc,
                   held, halt, gdiVars, lockVars>>

NextAccount ==
    \/ FlushDirty_Account(1)
    \/ \E Status \in Statuses : FlushDirty_Again(1, Status)
    \/ FlushDirty_Leave(1)

SpecAccount == InitAccount /\ [][NextAccount]_vars

\* The statuses of a write after which the VACB's pages count as freed
CountsAsFreed(Status) ==
    Status \in {"STATUS_SUCCESS", "STATUS_END_OF_FILE", "STATUS_MEDIA_WRITE_PROTECTED"}

\* C31: the accounting of flush_dirty: after a write that succeeded, or ended
\* with end_of_file or media_write_protected, the count is G/page_size higher
\* and the target lower by the same amount, or 0 if it was smaller; after any
\* other failure both are as before; the target is never below 0, and no
\* further VACB is written once it is 0
C31_FlushDirtyAccounting ==
    [][\A t \in Threads :
         /\ pc[t] = "fd_account" /\ pc'[t] = "fd_accounted" =>
              /\ CountsAsFreed(loc[t].Status) =>
                   /\ loc'[t].Count = loc[t].Count + PagesPerVacb
                   /\ loc'[t].Target = IF loc[t].Target < PagesPerVacb THEN 0
                                       ELSE loc[t].Target - PagesPerVacb
              /\ ~ CountsAsFreed(loc[t].Status) =>
                   /\ loc'[t].Count = loc[t].Count
                   /\ loc'[t].Target = loc[t].Target
              /\ loc'[t].Target >= 0
         /\ pc[t] = "fd_accounted" /\ pc'[t] = "fd_account" => loc[t].Target > 0]_vars

\* A write that ended with end_of_file has been counted although less than one
\* VACB's pages were left of the target, which is now 0
C31_TargetClampedAfterEndOfFile ==
    /\ pc[1] = "fd_accounted"
    /\ loc[1].Status = "STATUS_END_OF_FILE"
    /\ loc[1].Target = 0
    /\ loc[1].Count = 2 * PagesPerVacb

\* ------------------------------------------------------------ C32
\* The thread is inside CcRosTrimCache
InTrimCache(t) ==
    Running /\ loc[t].op = "trim_cache" /\ pc[t] \notin {"idle", "done"}

\* One file system thread maps each region the first time it releases it and
\* asks for the regions again and again, while the memory manager trims
NextRemap ==
    \/ \E t \in Dirtiers, o \in AlignedOffsets : CcRosRequestVacb(t, 1, o)
    \/ \E t \in Dirtiers : CreateVacb_Alloc(t)
    \/ \E t \in Dirtiers : CreateVacb_Insert(t)
    \/ \E t \in Dirtiers : CreateVacb_Ref(t)
    \/ \E t \in Dirtiers :
         /\ held[t] \in VacbIds
         /\ CcRosReleaseVacb(t, TRUE, FALSE, vacb[held[t]].MappedCount = 0)
    \/ CcRosTrimCache(LazyWriter, PagesPerVacb)
    \/ Trim_Step(LazyWriter)
    \/ FlushDirty_Step(LazyWriter)
    \/ \E t \in Dirtiers : Return(t)

SpecRemap == InitOpened /\ [][NextRemap]_vars

\* A thread inside CcRosTrimCache is scheduled again: it waits for ViewLock,
\* for the page-out and for the flush only
SpecRemapFair ==
    SpecRemap /\ WF_vars(Trim_Step(LazyWriter)) /\ WF_vars(FlushDirty_Step(LazyWriter))

\* Within one trim_cache invocation flush_dirty is called only with a target
\* left and not after it was called before; the LRU walk starts again only
\* after the one flush reported pages; and the pages reported as freed, with
\* the target left, never exceed the target given
TrimCacheOneFlushOneRetry ==
    [][\A t \in Threads :
         /\ pc[t] # "fd_walk" /\ pc'[t] = "fd_walk" =>
              /\ ~ loc[t].FlushedPages
              /\ ULONG_GT(loc'[t].TrimTarget, 0)
         /\ pc[t] # "trim_retry" /\ pc'[t] = "trim_retry" =>
              /\ ~ loc[t].FlushedPages /\ loc'[t].FlushedPages
              /\ loc'[t].Count # 0
         /\ \A Target \in Targets :
              CcRosTrimCache(t, Target) /\ Running' =>
                loc'[t].NrFreed + loc'[t].TrimTarget <= Target
         /\ loc[t].op = "trim_cache" /\ loc'[t].op = "trim_cache" =>
              /\ loc'[t].NrFreed + loc'[t].TrimTarget <= loc[t].NrFreed + loc[t].TrimTarget
              /\ loc'[t].TrimTarget >= 0]_vars

\* C32: within one trim_cache invocation flush_dirty is called at most once
\* and only if the first LRU pass did not meet the target, the LRU walk is
\* repeated at most once and only after a flush that reported pages, the pages
\* reported as freed never exceed the target, and the invocation terminates
C32_TrimCacheBounded ==
    /\ TrimCacheOneFlushOneRetry
    /\ InTrimCache(LazyWriter) ~> ~ InTrimCache(LazyWriter)


\* ------------------------------------------------------------ C33
\* CcRosReleaseVacb and CcRosUnmapVacb hold no lock: each interlocked access to
\* MappedCount and to ReferenceCount is a step of its own here, so that the
\* mapped releases and the unmaps of one VACB interleave between them.
MaxViews == MaxMapped + 1

\* The positions between CcRosUnmapVacb's lookup and its release
UnmapAt == {"unmap_found", "unmap_counted", "unmap_release"}

\* The mapped releases of v that have counted themselves and not yet returned
CountingReleases(v) ==
    {t \in Threads : pc[t] \in {"map_counted", "release_deref"} /\ held[t] = v}

\* The unmaps of v that have not yet taken their view off MappedCount
ClaimingUnmaps(v) ==
    {t \in Threads : pc[t] = "unmap_found" /\ loc[t].current = v}

\* The views of v that callers have got and that no caller is unmapping
ViewsToUnmap(v) ==
    vacb[v].MappedCount - Cardinality(CountingReleases(v))
                        - Cardinality(ClaimingUnmaps(v))

\* The test of line 441 with its sense turned: the reference is taken by
\* every mapped release but the first
MapReleaseRefsLater(NewCount) == NewCount # 1

\* Line 441: InterlockedIncrement returned 1
MapReleaseRefs(NewCount) == NewCount = 1

\* CcRosReleaseVacb with Mapped, lines 432 and 441: Valid is written and
\* MappedCount incremented
MapRelease_Count(t, Valid) ==
    /\ Idle(t) /\ held[t] \in VacbIds
    /\ vacb[held[t]].MappedCount < MaxViews
    /\ LET v == held[t]
           l == [NoLoc EXCEPT !.op = "release_region", !.current = v, !.Mapped = TRUE]
       IN  IF ~Live(Now, v) THEN Commit(UseAfterFree(Now), t, "idle", NoLoc, NULL)
           ELSE LET g == [Now EXCEPT !.vacb[v].Valid = Valid,
                                     !.vacb[v].MappedCount = @ + 1]
                IN  Commit(g, t,
                           IF MapReleaseRefs(g.vacb[v].MappedCount)
                           THEN "map_counted" ELSE "release_deref",
                           l, v)

\* Line 443: the reference of the mappings
MapRelease_Ref(t) ==
    /\ Running /\ pc[t] = "map_counted"
    /\ Commit(CcRosVacbIncRefCount(Now, held[t]), t, "release_deref", loc[t], held[t])

\* Lines 447 and 448: the caller's reference is given back
MapRelease_Deref(t) ==
    /\ Running /\ pc[t] = "release_deref"
    /\ Commit(ASSERT_(CcRosVacbDecRefCount(Now, held[t]),
                      ULONG_GT(RefsAfterDec(Now, held[t]), 0), "ASSERT(Refs > 0)"),
              t, "done", loc[t], NULL)

\* CcRosUnmapVacb, line 612: the caller unmaps a view it has got before
Unmap_Lookup(t, f, FileOffset) ==
    /\ Idle(t) /\ held[t] = NULL /\ Opened(t, f)
    /\ LET m == SectionPtr[f]
           Vacb == FoundVacb(Now, m, FileOffset)
       IN  /\ Vacb # NULL
           /\ ViewsToUnmap(Vacb) > 0
           /\ Commit(CcRosLookupVacb(Now, m, FileOffset), t, "unmap_found",
                     [NoLoc EXCEPT !.op = "unmap_region", !.f = f, !.current = Vacb],
                     NULL)

\* Lines 618 and 619: the assertion and InterlockedDecrement
Unmap_Count(t) ==
    /\ Running /\ pc[t] = "unmap_found"
    /\ LET Vacb == loc[t].current
       IN  IF ~Live(Now, Vacb) THEN Commit(UseAfterFree(Now), t, "idle", NoLoc, NULL)
           ELSE LET g1 == ASSERT_(Now, vacb[Vacb].MappedCount # 0,
                                  "ASSERT(Vacb->MappedCount != 0)")
                    g2 == [g1 EXCEPT !.vacb[Vacb].MappedCount = @ - 1]
                IN  Commit(g2, t,
                           IF g2.vacb[Vacb].MappedCount = 0
                           THEN "unmap_counted" ELSE "unmap_release",
                           loc[t], NULL)

\* Line 621: the reference of the mappings is dropped
Unmap_Deref(t) ==
    /\ Running /\ pc[t] = "unmap_counted"
    /\ Commit(CcRosVacbDecRefCount(Now, loc[t].current), t, "unmap_release", loc[t],
              NULL)

\* Line 624: CcRosReleaseVacb of the reference the lookup took
Unmap_Release(t) ==
    /\ Running /\ pc[t] = "unmap_release"
    /\ ReleaseVacb(Now, t, loc[t].current, Body(Now, loc[t].current).Valid, FALSE,
                   FALSE, "unmap_region")

\* Two threads map and unmap the regions of one open file and close it
NextMap ==
    \/ \E t \in Threads, o \in AlignedOffsets : CcRosRequestVacb(t, 1, o)
    \/ \E t \in Threads : CreateVacb_Alloc(t)
    \/ \E t \in Threads : CreateVacb_Insert(t)
    \/ \E t \in Threads : CreateVacb_Ref(t)
    \/ \E t \in Threads : MapRelease_Count(t, TRUE)
    \/ \E t \in Threads : MapRelease_Ref(t)
    \/ \E t \in Threads : MapRelease_Deref(t)
    \/ \E t \in Threads, o \in AlignedOffsets : Unmap_Lookup(t, 1, o)
    \/ \E t \in Threads : Unmap_Count(t)
    \/ \E t \in Threads : Unmap_Deref(t)
    \/ \E t \in Threads : Unmap_Release(t)
    \/ \E t \in Threads : CcRosReleaseFileCache(t, 1)
    \/ \E t \in Threads : FlushCache_Begin(t)
    \/ \E t \in Threads : FlushCache_Loop(t)
    \/ \E t \in Threads : Delete_Step(t)
    \/ \E t \in Threads : Return(t)

SpecMap == InitOpened /\ [][NextMap]_vars

\* The references of v that are not the one of its mappings: one for its place
\* on the map's list and the LRU list (kept while CcRosDeleteFileCache has it
\* on its FreeList, and held by its creator before it is linked), one for each
\* caller between its lookup and its release
OtherReferences(v) ==
    (IF vacb[v].CacheMapVacbListEntry # "empty"
        \/ \E t \in Threads : pc[t] = "create_insert" /\ loc[t].current = v
     THEN 1 ELSE 0)
    + Cardinality({t \in Threads :
                      held[t] = v \/ (pc[t] \in UnmapAt /\ loc[t].current = v)})

\* The reference held on behalf of v's mappings, with the interlocked
\* operations counted that have changed MappedCount to or from 0 and are
\* about to change ReferenceCount
MappingReferences(v) ==
    vacb[v].ReferenceCount - OtherReferences(v)
    + Cardinality({t \in Threads : pc[t] = "map_counted" /\ held[t] = v})
    - Cardinality({t \in Threads : pc[t] = "unmap_counted" /\ loc[t].current = v})

\* A VACB with mapped_count > 0 holds one reference for its mappings and a
\* VACB with mapped_count 0 none, beside its list and borrower references;
\* mapped_count is never negative; and the references of a VACB never fall
\* below those of its list and its borrowers
MappingReferenceHeld ==
    Running =>
      \A v \in VacbIds :
          vacb[v].state = "live" =>
            /\ vacb[v].MappedCount >= 0
            /\ MappingReferences(v) = IF vacb[v].MappedCount > 0 THEN 1 ELSE 0
            /\ vacb[v].ReferenceCount >= OtherReferences(v)

\* CcRosDeleteFileCache sets the mapped_count of a mapped VACB to 0 and drops
\* the one reference
DeleteDropsMappingReference ==
    [][\A t \in Threads, v \in VacbIds :
         /\ pc[t] = "delete_locked" /\ pc'[t] = "delete_free"
         /\ vacb[v].MappedCount > 0 /\ Running'
         => /\ vacb'[v].MappedCount = 0
            /\ vacb'[v].ReferenceCount = vacb[v].ReferenceCount - 1]_vars

\* C33: in every reachable state a VACB with mapped_count > 0 holds one
\* reference for its mappings beside its list and borrower references, taken
\* by release_region on the change of mapped_count from 0 to 1 only, dropped by
\* unmap_region on the change from 1 to 0 only, and dropped by
\* delete_file_cache when it sets mapped_count to 0; mapped_count is never
\* negative, under concurrent mapped releases and unmaps of one VACB
C33_MappingReference ==
    /\ []MappingReferenceHeld
    /\ DeleteDropsMappingReference

\* One thread has taken the last view off mapped_count and not yet dropped the
\* reference, while another has counted a new first view and not yet taken it
C33_UnmapRacesMappedRelease ==
    \E t \in Threads, u \in Threads, v \in VacbIds :
        /\ Running
        /\ pc[t] = "unmap_counted" /\ loc[t].current = v
        /\ pc[u] = "map_counted" /\ held[u] = v
        /\ vacb[v].MappedCount = 1

\* ------------------------------------------------------------ C34
\* The status CcRosInitializeFileCache returns (lines 1314, 1370 and 1390)
InitializeFileCacheStatus(g, t, f, SharedCacheMap, mapOk, privOk) ==
    LET Allocated == SharedCacheMap = NULL
        canAlloc == mapOk /\ FreeMapIds(g) # {}
        m == IF Allocated THEN (IF canAlloc THEN AllocateMap(g, f) ELSE NULL)
             ELSE SharedCacheMap
        inline == Allocated \/ ~MapBody(g, m).PrivateInline
    IN  IF m \notin MapIds THEN "STATUS_INSUFFICIENT_RESOURCES"
        ELSE IF g.priv[t][f].kind = "none" /\ ~inline /\ ~privOk
        THEN "STATUS_INSUFFICIENT_RESOURCES"
        ELSE "STATUS_SUCCESS"

\* CcRosInitializeFileCache from line 1307 on, with the status for the caller
InitializeFileCache_Call(t) ==
    /\ Running /\ pc[t] = "ifc_locked"
    /\ \E mapOk \in BOOLEAN, privOk \in BOOLEAN :
         Commit(CcRosInitializeFileCache(Now, t, loc[t].f, loc[t].map, mapOk, privOk),
                t, "done",
                [loc[t] EXCEPT
                   !.Status = InitializeFileCacheStatus(Now, t, loc[t].f, loc[t].map,
                                                        mapOk, privOk)],
                held[t])

\* Two threads open and close one file for caching, and memory may run out
NextOpenStatus ==
    \/ \E t \in Threads : InitializeFileCache_Read(t, 1)
    \/ \E t \in Threads : InitializeFileCache_Call(t)
    \/ \E t \in Threads : CcRosReleaseFileCache(t, 1)
    \/ \E t \in Threads : FlushCache_Begin(t)
    \/ \E t \in Threads : FlushCache_Loop(t)
    \/ \E t \in Threads : Delete_Step(t)
    \/ \E t \in Threads : Return(t)

SpecOpenStatus == Init /\ [][NextOpenStatus]_vars

TearingDown(m) ==
    \E t \in Threads : pc[t] = "delete_free" /\ loc[t].SharedCacheMap = m

\* C35: a file has at most one SharedCacheMap, every allocated SharedCacheMap
\* is the one installed in its file's section pointer or is being freed by
\* the thread that took it out, and no thread uses a SharedCacheMap that has
\* been freed, whatever the interleaving of initialize_file_cache calls and
\* release_file_cache calls for one file
C35_OneMapPerFile ==
    /\ \A m \in MapIds :
         maps[m].state = "live" =>
           SectionPtr[maps[m].FileObject] = m \/ TearingDown(m)
    /\ \A f \in Files :
         Cardinality({m \in MapIds : maps[m].state = "live" /\ maps[m].FileObject = f
                                     /\ ~TearingDown(m)}) <= 1
    /\ halt[2] # "use of a freed SharedCacheMap"

\* ------------------------------------------------------------ C36
\* C36: every handle-table operation leaves the lock bit of the entry clear
\* when it leaves the entry's critical section, on its failure paths too: the
\* step by which a thread ends its work on a locked entry clears the lock bit
C36_LockBitClearOnReturn ==
    [][\A t \in GdiThreads :
         /\ InsideSlot(t) # 0 /\ InsideSlot(t)' # InsideSlot(t)
         /\ Running'
         => ~ IsLocked(Entries'[InsideSlot(t)].ProcessId)]_vars

\* ------------------------------------------------------------ C37, C38, C39
\* The table after every entry has been used once for a brush and freed, the
\* highest first: the free list holds them all in their order
BrushTypeInfo ==
    GDI_OBJECT_GET_TYPE_INDEX(GDI_OBJECT_TYPE_BRUSH) * TwoTo16 + GDI_OBJECT_TYPE_BRUSH
GdiInitRecycled ==
    /\ Entries = [i \in Slots |->
                    [ProcessId |-> 0, Type |-> FreedType(BrushTypeInfo),
                     KernelData |-> IndexOfNext(IF i + 1 \in Slots THEN i + 1 ELSE 0)]]
    /\ FirstFree = RESERVE_ENTRIES_COUNT
    /\ FirstUnused = GDI_HANDLE_COUNT
    /\ Objects = [b \in BodyIds |-> FreeBody]
    /\ GDIHandleCount = [p \in Pids |-> 0]
    /\ gpc = [t \in GdiThreads |-> "idle"]
    /\ gloc = [t \in GdiThreads |-> NoGLoc]
    /\ locked = [t \in GdiThreads |-> [b \in BodyIds |-> 0]]
    /\ shared = [t \in GdiThreads |-> [b \in BodyIds |-> 0]]
    /\ minted = {MakeHandle(i, BrushTypeInfo) : i \in Slots}
    /\ destroyed = [k \in 1..NumSlots |->
                      [hHmgr |-> MakeHandle(RESERVE_ENTRIES_COUNT + k - 1, BrushTypeInfo),
                       pass |-> 0]]

InitRecycled ==
    /\ vacb = [v \in VacbIds |-> FreedVacb]
    /\ maps = [m \in MapIds |-> FreedMap]
    /\ DirtyVacbListHead = <<>>
    /\ VacbLruListHead = <<>>
    /\ CcTotalDirtyPages = 0
    /\ CcCleanSharedCacheMapList = <<>>
    /\ SectionPtr = [f \in Files |-> NULL]
    /\ PrivateCacheMap = [t \in Threads |-> [f \in Files |-> NoPrivateMap]]
    /\ mmRefs = [f \in Files |-> 0]
    /\ pc = [t \in Threads |-> "idle"]
    /\ loc = [t \in Threads |-> NoLoc]
    /\ held = [t \in Threads |-> NULL]
    /\ halt = <<"run", "">>
    /\ GdiInitRecycled
    /\ LockInit

\* Three threads allocate brushes, and one of them deletes what its process owns
Deleters == OwnThreads \ {1}
NextFreeList ==
    \/ \E t \in GdiThreads :
         Cardinality(minted) <= NumSlots + 1
            /\ GDIOBJ_AllocObjWithHandle(t, GDI_OBJECT_TYPE_BRUSH)
    \/ \E t \in GdiThreads : PopFreeEntry_Read(t)
    \/ \E t \in GdiThreads : PopFreeEntry_Lock(t)
    \/ \E t \in GdiThreads : PopFreeEntry_Swap(t)
    \/ \E t \in GdiThreads : AllocObjWithHandle_Lock(t)
    \/ \E t \in GdiThreads : AllocObjWithHandle_Publish(t)
    \/ \E t \in GdiThreads : AllocObjWithHandle_Count(t)
    \/ \E t \in Deleters, h \in minted :
         GDIOBJ_FreeObjByHandle(t, h, GDI_OBJECT_TYPE_BRUSH)
    \/ \E t \in Deleters : FreeObjByHandle_Lock(t)
    \/ \E t \in Deleters : FreeObjByHandle_Locked(t)
    \/ \E t \in Deleters : FreeObjByHandle_Push(t)
    \/ \E t \in Deleters : FreeObjByHandle_Cleanup(t)
    \/ \E t \in GdiThreads : GdiReturn(t)

SpecFreeList == InitRecycled /\ [][NextFreeList]_vars


\* ------------------------------------------------------------ C37
\* the entries met from FirstFree on, link by link, n of them at most
RECURSIVE FreeChainFrom(_, _, _)
FreeChainFrom(E, k, n) ==
    IF k = 0 \/ n = 0 THEN <<>>
    ELSE <<k>> \o FreeChainFrom(E, IF IsBody(E[k].KernelData) THEN 0
                                   ELSE E[k].KernelData[2], n - 1)
FreeChain == FreeChainFrom(Entries, FirstFree, NumSlots + 1)

\* 0, or the index of an entry that has been handed out before
IsFreeLink(k) == k = 0 \/ (k >= RESERVE_ENTRIES_COUNT /\ k < FirstUnused)

FreeListWellFormed ==
    /\ Len(FreeChain) <= NumSlots
    /\ \A j, k \in 1..Len(FreeChain) : j # k => FreeChain[j] # FreeChain[k]
    /\ IsFreeLink(FirstFree)
    /\ \A j \in 1..Len(FreeChain) :
         LET pEntry == Entries[FreeChain[j]]
         IN  /\ EntryBaseType(pEntry.Type) = 0
             /\ WithoutLock(pEntry.ProcessId) = 0
             /\ ~ IsBody(pEntry.KernelData)
             /\ IsFreeLink(pEntry.KernelData[2])
    /\ \A t \in GdiThreads :
         gpc[t] \in {"alloc_lock", "alloc_locked", "alloc_count"} =>
            gloc[t].Index >= RESERVE_ENTRIES_COUNT

\* C37: in every reachable state the free list from FirstFree has no cycle
\* and holds no entry twice, the entries on it have base type 0 and owner 0,
\* every link of it is 0 or an index from RESERVE_ENTRIES_COUNT up to
\* FirstUnused, no entry below RESERVE_ENTRIES_COUNT is handed out or listed,
\* and FirstUnused never decreases
C37_FreeListWellFormed ==
    /\ [](Running => FreeListWellFormed)
    /\ [][FirstUnused' >= FirstUnused]_vars

\* ------------------------------------------------------------ C38
\* thread t's InterlockedPopFreeEntry exchanges FirstFree in this step and
\* leaves with the entry
PopExchanged(t) == gpc[t] = "pop_swap" /\ gpc'[t] = "alloc_lock"

\* C38: the KernelData a pop reads in the entry it has locked is a free-list
\* link, so that the assertion of InterlockedPopFreeEntry holds in every
\* interleaving with pops, allocations, frees between their unlock and their
\* push, and changes of owner; and a pop that exchanges FirstFree installs
\* the successor the entry has
C38_PopReadsTheLink ==
    /\ [](halt[2] # "ASSERT(KernelData is an index)")
    /\ [][\A t \in GdiThreads :
            PopExchanged(t) /\ Running' =>
               LET pEntry == Entries[gloc[t].idxFirst]
               IN  /\ ~ IsBody(pEntry.KernelData)
                   /\ FirstFree' = pEntry.KernelData[2]]_vars

\* ------------------------------------------------------------ C39
\* thread t's GDIOBJ_AllocObjWithHandle has been handed an entry and has not
\* put its object into it yet
Handed(t) == gpc[t] \in {"alloc_lock", "alloc_locked"}

\* C39: no entry is handed to two allocations that are both alive, and no
\* entry that is alive is on the free list: an entry a pop has handed out is
\* neither in use, nor handed to another thread, nor listed
C39_NoDoubleAllocation ==
    Running =>
      /\ \A t \in GdiThreads :
           Handed(t) =>
              /\ EntryBaseType(Entries[gloc[t].Index].Type) = 0
              /\ \A u \in GdiThreads \ {t} : Handed(u) => gloc[u].Index # gloc[t].Index
              /\ gloc[t].Index \notin FreeList
      /\ \A i \in FreeList : EntryBaseType(Entries[i].Type) = 0

\* ------------------------------------------------------------ C40
\* One thread makes a palette, unlocks it and locks it again; another thread
\* of the process gives it to nobody or makes a stock object of it
NextWait ==
    \/ \E t \in Makers :
         Cardinality(minted) < 1
            /\ GDIOBJ_AllocObjWithHandle(t, GDI_OBJECT_TYPE_PALETTE)
    \/ \E t \in Makers : PopFreeEntry_Read(t)
    \/ \E t \in Makers : AllocObjWithHandle_Lock(t)
    \/ \E t \in Makers : AllocObjWithHandle_Publish(t)
    \/ \E t \in Makers : AllocObjWithHandle_Count(t)
    \/ \E t \in Makers, h \in minted :
         /\ \A b \in BodyIds : locked[t][b] < 1
         /\ GDIOBJ_LockObj(t, h, GDI_OBJECT_TYPE_PALETTE)
    \/ \E t \in Makers : LockObj_Lock(t)
    \/ \E t \in Makers : LockObj_Locked(t)
    \/ \E t \in Makers, b \in BodyIds : GDIOBJ_UnlockObjByPtr(t, b)
    \/ \E t \in Changers, h \in minted :
         /\ \A p \in Pids : GDIHandleCount[p] \in 0..NumSlots
         /\ GDIOBJ_SetOwnership(t, h, NULL)
    \/ \E t \in Changers : SetOwnership_Lock(t)
    \/ \E t \in Changers : SetOwnership_Locked(t)
    \/ \E t \in Changers, h \in minted : GDIOBJ_ConvertToStockObj(t, h)
    \/ \E t \in Changers : ConvertToStockObj_Lock(t)
    \/ \E t \in Changers : ConvertToStockObj_Locked(t)
    \/ \E t \in Makers \cup Changers : GdiReturn(t)
SpecWait == Init /\ [][NextWait]_vars

\* what a thread does once it is inside a call, and the unlock of a body it
\* holds: the steps the scheduler owes it
WaitStep(t) ==
    \/ PopFreeEntry_Read(t) \/ AllocObjWithHandle_Lock(t)
    \/ AllocObjWithHandle_Publish(t) \/ AllocObjWithHandle_Count(t)
    \/ LockObj_Lock(t) \/ LockObj_Locked(t)
    \/ SetOwnership_Lock(t) \/ SetOwnership_Locked(t)
    \/ ConvertToStockObj_Lock(t) \/ ConvertToStockObj_Locked(t)
    \/ GdiReturn(t)
    \/ \E b \in BodyIds : GDIOBJ_UnlockObjByPtr(t, b)
SpecWaitFair ==
    SpecWait /\ WF_vars(WaitStep(1)) /\ WF_vars(WaitStep(2))

\* the thread is inside one of the calls that wait for an entry or a body
Waiting(t) ==
    /\ gpc[t] \notin {"idle", "done"}
    /\ gloc[t].op \in {"lock", "share_lock", "free", "set_ownership", "copy_ownership",
                       "stock"}

\* nobody holds an entry's lock or a body
AllReleased ==
    /\ \A i \in Slots : ~ IsLocked(Entries[i].ProcessId)
    /\ \A b \in BodyIds : Objects[b].state = "used" => Objects[b].cExclusiveLock = 0

\* C40: with every thread scheduled again and again, a call of lock_object,
\* share_lock_object, free_by_handle, set_ownership, copy_ownership or
\* convert_to_stock returns once those that hold the entry or the body have
\* released them, also when the entry's owner changed or the object was freed
\* while the call waited: no call waits for ever with every entry unlocked
\* and no body held
C40_WaitingCallsReturn ==
    \A t \in Makers \cup Changers :
        Waiting(t) ~> (~ Waiting(t) \/ ~ AllReleased \/ ~ Running)

====
